---- MODULE Spec2Model ----
(***************************************************************************)
(* S3 consistency tester: the measurement-and-cleanup engine.              *)
(*                                                                         *)
(* Two tasks share the CleanupManager: the main task runs                  *)
(* run_consistency_test (tester.rs), the hook task is the one spawned by   *)
(* setup_cleanup_handler (cleanup.rs).  Every await point of the code is a *)
(* step boundary; a storage call is a step that issues it and a step that  *)
(* completes it with an outcome the storage chooses.                       *)
(* Time is counted in milliseconds.                                        *)
(***************************************************************************)
EXTENDS Integers, Sequences, FiniteSets, TLC

\* ---------------------------------------------------------------- bounds
\* test_count is at most MaxTests; the interrupt signal is delivered only in
\* runs of at most MaxInterruptedTests tests (the hook task interleaves with
\* every step of the main task, and each further iteration multiplies the
\* states of such a run by about 30)
MaxTests == 2
MaxInterruptedTests == 1
\* max_wait is at most MaxWait seconds
MaxWait == 1
\* a run is long or slow, not both: test_count + max_wait is at most
\* MaxRunSize (every result keeps the timestamps and the attempts of its
\* poll, whose number grows with max_wait)
MaxRunSize == 2
\* the first MaxAttempts read attempts of a poll may take no time at all
MaxAttempts == 2

\* longest result list, and longest list of distinct durations, that the
\* statistics functions are called with
MaxResults == 3
MaxSamples == 100

\* most register_file / unregister_file calls made on a CleanupManager
\* that is used on its own
MaxCalls == 5

\* ------------------------------------------------------ program constants
\* for attempt in 1..=3
CleanupAttempts == 3
\* timeout(Duration::from_secs(5), get_object)
ReadTimeoutSecs == 5

from_secs(s) == s * 1000
from_millis(m) == m

\* mutant: the attempt is cut after twice the time
PerAttemptTimeoutTwice == from_secs(2 * ReadTimeoutSecs)

\* timeout(Duration::from_secs(5), ..)
PerAttemptTimeout == from_secs(ReadTimeoutSecs)

\* ------------------------------------------------------ input domains
TestCounts == 0..MaxTests
MaxWaits == 0..MaxWait
Intervals == {0, 1000}
\* how long a read that completes by itself may take (below the timeout)
ReadDurations == {0, 1000}
\* by how much the wall clock (Utc::now) is stepped between the reading at
\* the upload and the reading at the successful read: set back, or not at all
ClockSteps == {-1000, 0}
\* the causes put_object may fail with
PutErrors == {"AccessDenied", "ConnectionReset"}

Tasks == {"main", "hook"}
Keys == 1..MaxTests

VARIABLES
    pc,            \* position of each task
    proc,          \* "running", "exit0" or "exit1"
    test_count,    \* Args::test_count
    max_wait,      \* Args::max_wait (seconds)
    interval,      \* Args::interval (milliseconds)
    i,             \* loop index of run_consistency_test
    file_key,      \* key of the iteration in progress (0: none)
    upload_time,   \* Utc::now() read after the put; the wall clock of an
                   \* iteration is counted from this reading
    bucket,        \* keys stored in the bucket
    active_files,  \* CleanupManager::active_files
    lock,          \* holder of the active_files mutex, or "free"
    ec,            \* per task: emergency_cleanup's snapshot, its loop
                   \* index, the deletes it issued and how it returned
    active_count,  \* local of final_cleanup_check
    elapsed,       \* start_time.elapsed() of the poll in progress
    attempts,      \* attempts of the poll in progress
    consistency_result, \* what test_read_consistency returned
    attempt,       \* loop variable of cleanup_file
    test_result,   \* what test_single_file returns
    results,       \* results of run_consistency_test
    statistics,    \* what calculate_statistics returned
    cur,           \* history of the iteration in progress
    hist,          \* history of each key: its put and its deletes
    slept,         \* the iterations after which the inter-test delay was
                   \* slept
    call,          \* a call of a statistics function: function, arguments
    returned,      \* what that call returned
    api_log,       \* the register_file / unregister_file calls made on a
                   \* CleanupManager used on its own, in order
    observed       \* what active_file_count and get_active_files last
                   \* returned there, and after how many of those calls

vars == <<pc, proc, test_count, max_wait, interval, i, file_key,
          upload_time, bucket, active_files, lock, ec, active_count, elapsed, attempts,
          consistency_result, attempt, test_result, results, statistics,
          cur, hist, slept, call, returned, api_log, observed>>

NoResult == [ok |-> FALSE, time |-> 0, attempts |-> 0, set |-> FALSE]

\* Option<T>: Some(x), and None with a placeholder of the type of x
Some(x) == [some |-> TRUE, v |-> x]
is_some(o) == o.some

\* a.signed_duration_since(b).num_milliseconds(): an i64
signed_duration_since(a, b) == a - b

\* x as u64, for an i64 x: the same 64 bits read as unsigned, that is x for
\* x >= 0 and 2^64 + x for x < 0.  A u64 is written two63 * 2^63 + plus,
\* with plus small against 2^63: two63 = 0 and plus >= 0, or two63 = 1, or
\* two63 = 2 and plus < 0.
as_u64(x) == [two63 |-> IF x < 0 THEN 2 ELSE 0, plus |-> x]

NoTime == [some |-> FALSE, v |-> 0]
NoDuration == [some |-> FALSE, v |-> as_u64(0)]

\* mutant: a success carries an error text
TestResultSuccessWithError(key, upload, first_success, total_attempts) ==
    [file_key |-> key,
     upload_time |-> upload,
     first_read_success_time |-> Some(first_success),
     propagation_duration_ms |->
         Some(as_u64(signed_duration_since(first_success, upload))),
     total_attempts |-> total_attempts,
     success |-> TRUE,
     error_details |-> "success"]

\* TestResult::success; error_details "none" is Option::None
TestResultSuccess(key, upload, first_success, total_attempts) ==
    [file_key |-> key,
     upload_time |-> upload,
     first_read_success_time |-> Some(first_success),
     propagation_duration_ms |->
         Some(as_u64(signed_duration_since(first_success, upload))),
     total_attempts |-> total_attempts,
     success |-> TRUE,
     error_details |-> "none"]

\* mutant: a failure carries a first-success time
TestResultFailureKeepsTime(key, upload, error_details) ==
    [file_key |-> key,
     upload_time |-> upload,
     first_read_success_time |-> Some(upload),
     propagation_duration_ms |-> NoDuration,
     total_attempts |-> 0,
     success |-> FALSE,
     error_details |-> error_details]

\* TestResult::failure
TestResultFailure(key, upload, error_details) ==
    [file_key |-> key,
     upload_time |-> upload,
     first_read_success_time |-> NoTime,
     propagation_duration_ms |-> NoDuration,
     total_attempts |-> 0,
     success |-> FALSE,
     error_details |-> error_details]

NoTestResult == TestResultFailure(0, 0, "unset")

\* ------------------------------------------------- statistics.rs: numbers
\* u64 order
U64Lt(a, b) ==
    a.two63 < b.two63 \/ (a.two63 = b.two63 /\ a.plus < b.plus)

U64Le(a, b) == a = b \/ U64Lt(a, b)

\* a + b on u64: the low 64 bits of the sum, and whether the sum passed
\* 2^64 (a build with overflow checks panics there, a build without them
\* keeps the low 64 bits)
U64Add(a, b) ==
    LET h == a.two63 + b.two63
        x == a.plus + b.plus
        over == h > 2 \/ (h = 2 /\ x >= 0)
    IN  [v |-> [two63 |-> IF over THEN h - 2 ELSE h, plus |-> x],
         overflow |-> over]

\* a / 2 on u64 (two63 is even for every sum of two durations that
\* as_u64 produced)
U64Half(a) == [two63 |-> a.two63 \div 2, plus |-> a.plus \div 2]

\* A natural number of any size is the sequence of its binary digits, the
\* most significant first and not 0; zero is the empty sequence.
Zeros(n) == [k \in 1..n |-> 0]

AnyOne(b) == \E k \in 1..Len(b) : b[k] = 1

Trim(b) ==
    IF ~AnyOne(b) THEN <<>>
    ELSE LET first == CHOOSE j \in 1..Len(b) :
                          b[j] = 1 /\ \A k \in 1..(j - 1) : b[k] = 0
         IN  SubSeq(b, first, Len(b))

\* the digits of n, for 0 <= n < 2^30
NatBits(n) == Trim([k \in 1..30 |-> (n \div 2^(30 - k)) % 2])

\* b + 1
Inc(b) ==
    IF \A k \in 1..Len(b) : b[k] = 1 THEN <<1>> \o Zeros(Len(b))
    ELSE LET last0 == CHOOSE j \in 1..Len(b) :
                          b[j] = 0 /\ \A k \in (j + 1)..Len(b) : b[k] = 1
         IN  [k \in 1..Len(b) |->
                 IF k < last0 THEN b[k] ELSE IF k = last0 THEN 1 ELSE 0]

\* the same number in base 4096, the most significant digit first, and back
Limbs(b) ==
    LET w == (Len(b) + 11) \div 12
        p == Zeros(12 * w - Len(b)) \o b
    IN  [n \in 1..w |->
            LET j == 12 * (n - 1)
            IN  p[j + 1] * 2048 + p[j + 2] * 1024 + p[j + 3] * 512
                + p[j + 4] * 256 + p[j + 5] * 128 + p[j + 6] * 64
                + p[j + 7] * 32 + p[j + 8] * 16 + p[j + 9] * 8
                + p[j + 10] * 4 + p[j + 11] * 2 + p[j + 12]]

LimbsBits(l) ==
    [k \in 1..(12 * Len(l)) |->
        (l[(k - 1) \div 12 + 1] \div 2^(11 - ((k - 1) % 12))) % 2]

\* the number b, for b < 2^30
BitsNat(b) ==
    LET l == Limbs(Zeros(36 - Len(b)) \o b)
    IN  (l[1] * 4096 + l[2]) * 4096 + l[3]

\* l * k + carry in base 4096, for k < 4096
RECURSIVE MulLimbs(_, _, _)
MulLimbs(l, k, carry) ==
    IF l = <<>> THEN <<carry>>
    ELSE LET t == l[Len(l)] * k + carry
         IN  Append(MulLimbs(SubSeq(l, 1, Len(l) - 1), k, t \div 4096),
                    t % 4096)

\* l divided by k in base 4096, for k < 4096: quotient and remainder
RECURSIVE DivLimbs(_, _)
DivLimbs(l, k) ==
    IF l = <<>> THEN [q |-> <<>>, r |-> 0]
    ELSE LET d == DivLimbs(SubSeq(l, 1, Len(l) - 1), k)
             t == d.r * 4096 + l[Len(l)]
         IN  [q |-> Append(d.q, t \div k), r |-> t % k]

\* b * k, and b divided by k with its remainder, for a small k
MulSmall(b, k) == Trim(LimbsBits(MulLimbs(Limbs(b), k, 0)))

DivSmall(b, k) ==
    LET d == DivLimbs(Limbs(b), k)
    IN  [q |-> Trim(LimbsBits(d.q)), r |-> d.r]

\* the bits of a u64
U64Bits(u) ==
    LET below(x, w) == \* 2^w - x, for 0 < x <= 2^w, on w bits
            LET y == NatBits(x - 1)
                p == Zeros(w - Len(y)) \o y
            IN  [k \in 1..w |-> 1 - p[k]]
    IN  IF u.two63 = 0 THEN NatBits(u.plus)
        ELSE IF u.two63 = 2 THEN Trim(below(0 - u.plus, 64))
        ELSE IF u.plus >= 0
             THEN <<1>> \o Zeros(63 - Len(NatBits(u.plus))) \o NatBits(u.plus)
             ELSE Trim(below(0 - u.plus, 63))

\* An f64 (normal range): 53 binary digits m, the first one 1, and the
\* exponent e of the last: the value is m * 2^e.  Zero has no digits.
F64Precision == 53
F64Zero == [m |-> <<>>, e |-> 0]

\* the f64 nearest to b * 2^e (plus something positive below the last
\* digit of b when sticky), ties to even: IEEE-754 round-to-nearest
round_f64(b, e, sticky) ==
    LET t == Trim(b)
        n == Len(t)
    IN  IF n = 0 THEN F64Zero
        ELSE IF n <= F64Precision
        THEN [m |-> t \o Zeros(F64Precision - n), e |-> e - (F64Precision - n)]
        ELSE LET kept == SubSeq(t, 1, F64Precision)
                 rest == SubSeq(t, F64Precision + 1, n)
                 up == /\ rest[1] = 1
                       /\ \/ sticky
                          \/ AnyOne(Tail(rest))
                          \/ kept[F64Precision] = 1
                 r == IF up THEN Inc(kept) ELSE kept
             IN  IF Len(r) > F64Precision
                 THEN [m |-> SubSeq(r, 1, F64Precision),
                       e |-> e + (n - F64Precision) + 1]
                 ELSE [m |-> r, e |-> e + (n - F64Precision)]

\* the f64 that holds the integer n (n as f64 for a usize n, a literal
\* such as 95.0), and u as f64 for a u64 u
f64_from(n) == round_f64(NatBits(n), 0, FALSE)
u64_as_f64(u) == round_f64(U64Bits(u), 0, FALSE)

\* f * k and f / k, for an f64 k that holds a small integer: the exact
\* product or quotient, rounded once
GuardBits == 16
f64_mul(f, k) == round_f64(MulSmall(f.m, k), f.e, FALSE)
f64_div(f, k) ==
    LET d == DivSmall(f.m \o Zeros(GuardBits), k)
    IN  round_f64(d.q, f.e - GuardBits, d.r /= 0)

\* f.ceil() as usize, for 0 <= f < 2^30
ceil_as_usize(f) ==
    IF f.m = <<>> THEN 0
    ELSE IF f.e >= 0 THEN BitsNat(f.m \o Zeros(f.e))
    ELSE IF 0 - f.e >= F64Precision THEN 1
    ELSE LET w == F64Precision + f.e
         IN  BitsNat(SubSeq(f.m, 1, w))
                 + (IF AnyOne(SubSeq(f.m, w + 1, F64Precision)) THEN 1 ELSE 0)


\* ------------------------------------------------------- statistics.rs
\* A call returns a value or panics; a panic carries a placeholder of the
\* type of the value.
Return(x) == [panic |-> FALSE, value |-> x]

NoMean == [some |-> FALSE, v |-> F64Zero]

\* ConsistencyStatistics, and the value of the variable before the call
NoStatistics ==
    [successful_tests |-> 0, failed_tests |-> 0, success_rate |-> F64Zero,
     min_propagation_time_ms |-> NoDuration,
     max_propagation_time_ms |-> NoDuration,
     avg_propagation_time_ms |-> NoMean,
     median_propagation_time_ms |-> NoDuration,
     percentile_95_ms |-> NoDuration,
     percentile_99_ms |-> NoDuration,
     set |-> FALSE]

\* mutant: the durations are left in the order of the results
sort_skipped(ds) == ds

\* durations.sort_unstable(): ascending; the k-th duration goes to the
\* place after the smaller ones and the equal ones before it
sort_unstable(ds) ==
    LET place(k) ==
            1 + Cardinality({j \in 1..Len(ds) :
                                \/ U64Lt(ds[j], ds[k])
                                \/ (ds[j] = ds[k] /\ j < k)})
    IN  [n \in 1..Len(ds) |->
            ds[CHOOSE k \in 1..Len(ds) : place(k) = n]]

\* durations.iter().sum::<u64>(): the additions from the left
RECURSIVE sum(_)
sum(ds) ==
    IF ds = <<>> THEN [v |-> as_u64(0), overflow |-> FALSE]
    ELSE LET s == sum(SubSeq(ds, 1, Len(ds) - 1))
             a == U64Add(s.v, ds[Len(ds)])
         IN  [v |-> a.v, overflow |-> s.overflow \/ a.overflow]

\* calculate_median(sorted_durations); (mid1 + mid2) / 2 panics when the
\* sum overflows in a build with overflow checks
calculate_median(sorted_durations, overflow_checks) ==
    LET len == Len(sorted_durations)
    IN  IF len = 0 THEN Return(NoDuration)
        ELSE IF len % 2 = 0
        THEN LET mid1 == sorted_durations[len \div 2]
                 mid2 == sorted_durations[len \div 2 + 1]
                 a == U64Add(mid1, mid2)
             IN  IF a.overflow /\ overflow_checks
                 THEN [panic |-> TRUE, value |-> NoDuration]
                 ELSE Return(Some(U64Half(a.v)))
        ELSE Return(Some(sorted_durations[len \div 2 + 1]))

\* the percentiles a call is made with: the 95.0 and 99.0 of
\* calculate_statistics among them
Percentiles == {-1, 0, 28, 50, 95, 99, 100, 101}

\* (percentile / 100.0) * (len as f64), for every percentile and length in
\* use (no list is longer than the bounds together): each value is
\* computed once
Ranks ==
    [percentile \in {p \in Percentiles : 0 < p /\ p < 100} |->
        [len \in 1..(MaxTests + MaxResults + MaxSamples) |->
            f64_mul(f64_div(f64_from(percentile), 100), len)]]

\* (successful_tests as f64 / results.len() as f64) * 100.0, likewise
SuccessRates ==
    [len \in 1..(MaxTests + MaxResults) |->
        [successful_tests \in 0..len |->
            f64_mul(f64_div(f64_from(successful_tests), len), 100)]]

saturating_sub(a, b) == IF a >= b THEN a - b ELSE 0

min(a, b) == IF a <= b THEN a ELSE b

\* mutant: the rank itself is used as the index
calculate_percentile_rank_as_index(sorted_durations, percentile) ==
    LET len == Len(sorted_durations)
    IN  IF len = 0 \/ percentile < 0 \/ percentile > 100 THEN NoDuration
        ELSE IF percentile = 0 THEN Some(sorted_durations[1])
        ELSE IF percentile = 100 THEN Some(sorted_durations[len])
        ELSE LET r == Ranks[percentile][len]
                 clamped == min(ceil_as_usize(r), len - 1)
             IN  Some(sorted_durations[clamped + 1])

\* calculate_percentile(sorted_durations, percentile), for a percentile
\* that holds an integer
calculate_percentile(sorted_durations, percentile) ==
    LET len == Len(sorted_durations)
    IN  IF len = 0 \/ percentile < 0 \/ percentile > 100 THEN NoDuration
        ELSE IF percentile = 0 THEN Some(sorted_durations[1])
        ELSE IF percentile = 100 THEN Some(sorted_durations[len])
        ELSE LET index ==
                     saturating_sub(ceil_as_usize(Ranks[percentile][len]), 1)
                 clamped == min(index, len - 1)
             IN  Some(sorted_durations[clamped + 1])

\* statistics::calculate_statistics(&results)
calculate_statistics(rs, overflow_checks) ==
    LET successful_results == SelectSeq(rs, LAMBDA r :
            r.success /\ is_some(r.propagation_duration_ms))
        successful_tests == Len(successful_results)
        failed_tests == Len(rs) - successful_tests
        durations == sort_unstable(
            [n \in 1..successful_tests |->
                successful_results[n].propagation_duration_ms.v])
        total == sum(durations)
        median == calculate_median(durations, overflow_checks)
    IN  IF rs = <<>> THEN Return([NoStatistics EXCEPT !.set = TRUE])
        ELSE IF successful_results = <<>>
        THEN Return([NoStatistics EXCEPT
                        !.successful_tests = successful_tests,
                        !.failed_tests = failed_tests,
                        !.success_rate =
                            SuccessRates[Len(rs)][successful_tests],
                        !.set = TRUE])
        ELSE IF (total.overflow /\ overflow_checks) \/ median.panic
        THEN [panic |-> TRUE, value |-> NoStatistics]
        ELSE Return(
            [successful_tests |-> successful_tests,
             failed_tests |-> failed_tests,
             success_rate |-> SuccessRates[Len(rs)][successful_tests],
             min_propagation_time_ms |-> Some(durations[1]),
             max_propagation_time_ms |-> Some(durations[Len(durations)]),
             avg_propagation_time_ms |->
                 Some(f64_div(u64_as_f64(total.v), Len(durations))),
             median_propagation_time_ms |-> median.value,
             percentile_95_ms |-> calculate_percentile(durations, 95),
             percentile_99_ms |-> calculate_percentile(durations, 99),
             set |-> TRUE])

\* what has happened in the iteration in progress
CurInit ==
    [putError |-> "none", sampled |-> FALSE, reads |-> 0, readFails |-> 0,
     pollSleeps |-> 0, poll |-> "none",
     cleanupCalls |-> 0, cleanupSleeps |-> 0, cleanupOkAt |-> 0,
     cleanupReturned |-> FALSE]

\* what has happened to a key: the outcome of its put, whether it was
\* registered, the outcome of the first read of its poll, the deletes
\* issued for it by cleanup_file, by the emergency_cleanup of
\* final_cleanup_check and by that of the hook, and how many of them
\* returned Ok
HistInit ==
    [put |-> "none", registered |-> FALSE, firstRead |-> "none",
     cleanupDeletes |-> 0, finalDeletes |-> 0, hookDeletes |-> 0,
     deletesOk |-> 0]

\* the history of key after a read of its poll has completed
AfterRead(h, key, outcome) ==
    IF attempts = 1 THEN [h EXCEPT ![key].firstRead = outcome] ELSE h

EcInit ==
    [snap |-> <<>>, idx |-> 1, issued |-> <<>>, ret |-> "none", left |-> 0]

\* the program before run_consistency_test
ProgramInit ==
    /\ pc = [t \in Tasks |-> IF t = "main" THEN "loop" ELSE "waiting"]
    /\ proc = "running"
    /\ test_count \in TestCounts
    /\ max_wait \in MaxWaits
    /\ test_count + max_wait <= MaxRunSize
    /\ interval \in Intervals
    /\ i = 0
    /\ file_key = 0
    /\ upload_time = 0
    /\ bucket = {}
    /\ active_files = <<>>
    /\ lock = "free"
    /\ ec = [t \in Tasks |-> EcInit]
    /\ active_count = 0
    /\ elapsed = 0
    /\ attempts = 0
    /\ consistency_result = NoResult
    /\ attempt = 0
    /\ test_result = NoTestResult
    /\ results = <<>>
    /\ statistics = NoStatistics
    /\ cur = CurInit
    /\ hist = [k \in Keys |-> HistInit]
    /\ slept = {}

NoCall ==
    [fn |-> "none", results |-> <<>>, durations |-> <<>>, percentile |-> 0,
     overflow_checks |-> FALSE]

NoReturn == [done |-> FALSE, panic |-> FALSE, value |-> NoDuration]

NoObserved == [count |-> 0, count_at |-> -1, files |-> <<>>, files_at |-> -1]

Init ==
    /\ ProgramInit
    /\ call = NoCall
    /\ returned = NoReturn
    /\ api_log = <<>>
    /\ observed = NoObserved

Running == proc = "running"
At(t, where) == Running /\ pc[t] = where
Goto(t, where) == pc' = [pc EXCEPT ![t] = where]

\* --------------------------------------------- run_consistency_test: loop
\* for i in 0..args.test_count; test_single_file generates the key (a fresh
\* UUID: no two iterations share one) and issues put_object
LoopHead ==
    /\ At("main", "loop")
    /\ IF i < test_count
       THEN /\ file_key' = i + 1
            /\ Goto("main", "put")
       ELSE /\ file_key' = file_key
            /\ Goto("main", "stats")
    /\ UNCHANGED <<proc, test_count, max_wait, interval, i, upload_time,
                   bucket, active_files, lock, ec, active_count, elapsed,
                   attempts, consistency_result, attempt, test_result,
                   results, statistics, cur, hist, slept, call, returned,
                   api_log, observed>>

\* Ok(_) => { let upload_time = Utc::now(); ..
AfterPutOk == "sample"

\* mutant: the cleanup is run before the poll
AfterRegisterCleanupFirst == "cleanup"

\* register_file(&file_key).await; then test_read_consistency(..).await
AfterRegister == "poll_start"

\* mutant: a poll that timed out returns early, past the cleanup
AfterPollSkipOnTimeout(ok) == IF ok THEN "cleanup" ELSE "cleanup_return"

\* test_read_consistency has returned (Ok or Err): cleanup_file(..).await
AfterPoll(ok) == "cleanup"

\* put_object returned Ok: the object is stored
PutOk ==
    /\ At("main", "put")
    /\ bucket' = bucket \cup {file_key}
    /\ hist' = [hist EXCEPT ![file_key].put = "ok"]
    /\ Goto("main", AfterPutOk)
    /\ UNCHANGED <<proc, test_count, max_wait, interval, i, file_key,
                   upload_time, active_files, lock, ec, active_count, elapsed,
                   attempts, consistency_result, attempt, test_result,
                   results, statistics, cur, slept, call, returned, api_log,
                   observed>>

\* mutant: the cause is left out of the text
format_upload_failed_no_cause(e) == "Upload failed"

\* format!("Upload failed: {}", e)
format_upload_failed(e) == "Upload failed: " \o e

\* mutant: a failed put ends the loop
AfterPutErrAbort == "stats"

\* the Err arm of test_single_file returns its TestResult to the loop
AfterPutErr == "push"

\* put_object returned Err(e): let upload_time = Utc::now();
\* TestResult::failure(file_key, upload_time, "Upload failed: e")
PutErr ==
    /\ At("main", "put")
    /\ \E e \in PutErrors :
        /\ cur' = [cur EXCEPT !.putError = e]
        /\ test_result' =
              TestResultFailure(file_key, 0, format_upload_failed(e))
    /\ upload_time' = 0
    /\ hist' = [hist EXCEPT ![file_key].put = "fail"]
    /\ Goto("main", AfterPutErr)
    /\ UNCHANGED <<proc, test_count, max_wait, interval, i, file_key, bucket,
                   active_files, lock, ec, active_count, elapsed, attempts,
                   consistency_result, attempt, results, statistics, slept,
                   call, returned, api_log, observed>>

\* let upload_time = Utc::now()
SampleUploadTime ==
    /\ At("main", "sample")
    /\ upload_time' = 0
    /\ cur' = [cur EXCEPT !.sampled = TRUE]
    /\ Goto("main", "register")
    /\ UNCHANGED <<proc, test_count, max_wait, interval, i, file_key, bucket,
                   active_files, lock, ec, active_count, elapsed, attempts,
                   consistency_result, attempt, test_result, results,
                   statistics, hist, slept, call, returned, api_log, observed>>

\* mutant: the delay is slept after every iteration
SleepAfterEach(index, count) == TRUE

\* if i < args.test_count - 1 (in the loop test_count is at least 1)
SleepBetween(index, count) == index < count - 1

\* results.push(test_result); if i < args.test_count - 1 { sleep(100ms) }
\* (the locals of test_single_file are gone)
PushResult ==
    /\ At("main", "push")
    /\ results' = Append(results, test_result)
    /\ file_key' = 0
    /\ upload_time' = 0
    /\ consistency_result' = NoResult
    /\ test_result' = NoTestResult
    /\ cur' = CurInit
    /\ IF SleepBetween(i, test_count)
       THEN /\ Goto("main", "inter_sleep")
            /\ i' = i
       ELSE /\ Goto("main", "loop")
            /\ i' = i + 1
    /\ UNCHANGED <<proc, test_count, max_wait, interval, bucket, active_files,
                   lock, ec, active_count, elapsed, attempts, attempt,
                   statistics, hist, slept, call, returned, api_log, observed>>

\* sleep(Duration::from_millis(100)).await, then the next iteration
InterTestSleep ==
    /\ At("main", "inter_sleep")
    /\ slept' = slept \cup {i + 1}
    /\ i' = i + 1
    /\ Goto("main", "loop")
    /\ UNCHANGED <<proc, test_count, max_wait, interval, file_key,
                   upload_time, bucket, active_files, lock, ec, active_count,
                   elapsed, attempts, consistency_result, attempt,
                   test_result, results, statistics, cur, hist, call,
                   returned, api_log, observed>>

\* ------------------------------------- CleanupManager::register_file
\* self.active_files.lock().await
RegisterLock ==
    /\ At("main", "register")
    /\ lock = "free"
    /\ lock' = "main"
    /\ Goto("main", "register_push")
    /\ UNCHANGED <<proc, test_count, max_wait, interval, i, file_key,
                   upload_time, bucket, active_files, ec, active_count,
                   elapsed, attempts, consistency_result, attempt,
                   test_result, results, statistics, cur, hist, slept, call,
                   returned, api_log, observed>>

\* active_files.push(file_key); the guard is dropped at the end of the scope
\* mutant: the key is put at the front
push_front(files, key) == <<key>> \o files

\* mutant: a key that is already in the list is not added again
push_if_absent(files, key) ==
    IF \E n \in 1..Len(files) : files[n] = key THEN files
    ELSE Append(files, key)

\* active_files.push(file_key.to_string())
push(files, key) == Append(files, key)

RegisterPush ==
    /\ At("main", "register_push")
    /\ active_files' = push(active_files, file_key)
    /\ lock' = "free"
    /\ hist' = [hist EXCEPT ![file_key].registered = TRUE]
    /\ Goto("main", AfterRegister)
    /\ UNCHANGED <<proc, test_count, max_wait, interval, i, file_key,
                   upload_time, bucket, ec, active_count, elapsed, attempts,
                   consistency_result, attempt, test_result, results,
                   statistics, cur, slept, call, returned, api_log, observed>>

\* --------------------------------------------- test_read_consistency
\* start_time = Instant::now(); attempts = 0
PollStart ==
    /\ At("main", "poll_start")
    /\ elapsed' = 0
    /\ attempts' = 0
    /\ Goto("main", "poll_loop")
    /\ UNCHANGED <<proc, test_count, max_wait, interval, i, file_key,
                   upload_time, bucket, active_files, lock, ec, active_count,
                   consistency_result, attempt, test_result, results,
                   statistics, cur, hist, slept, call, returned, api_log,
                   observed>>

\* attempts += 1; get_object is issued under timeout(5 s)
PollAttempt ==
    /\ At("main", "poll_loop")
    /\ attempts' = attempts + 1
    /\ cur' = [cur EXCEPT !.reads = @ + 1]
    /\ Goto("main", "reading")
    /\ UNCHANGED <<proc, test_count, max_wait, interval, i, file_key,
                   upload_time, bucket, active_files, lock, ec, active_count,
                   elapsed, consistency_result, attempt, test_result, results,
                   statistics, hist, slept, call, returned, api_log, observed>>

\* Time advances: after MaxAttempts attempts a read takes time.
ReadTakes(d) == d > 0 \/ attempts <= MaxAttempts

\* Utc::now() at a moment `mono` of the monotonic clock counted from the
\* reading of upload_time
UtcNow(mono) == {upload_time + mono + s : s \in ClockSteps}

\* mutant: the attempt that succeeded is not counted
OkCountsFailures(success_time, n) ==
    [ok |-> TRUE, time |-> success_time, attempts |-> n - 1, set |-> TRUE]

\* Ok((success_time, attempts)) and Err(anyhow!(error_msg))
Ok(success_time, n) ==
    [ok |-> TRUE, time |-> success_time, attempts |-> n, set |-> TRUE]

Err(n) == [ok |-> FALSE, time |-> 0, attempts |-> n, set |-> TRUE]

\* Ok(Ok(response)): let success_time = Utc::now();
\* return Ok((success_time, attempts))
ReadOk ==
    /\ At("main", "reading")
    /\ \E d \in ReadDurations :
        /\ ReadTakes(d)
        /\ elapsed' = elapsed + d
        /\ \E success_time \in UtcNow(elapsed + d) :
              consistency_result' = Ok(success_time, attempts)
    /\ cur' = [cur EXCEPT !.poll = "ok"]
    /\ hist' = AfterRead(hist, file_key, "ok")
    /\ Goto("main", AfterPoll(TRUE))
    /\ UNCHANGED <<proc, test_count, max_wait, interval, i, file_key,
                   upload_time, bucket, active_files, lock, ec, active_count,
                   attempts, attempt, test_result, results, statistics, slept,
                   call, returned, api_log, observed>>

\* Ok(Err(e)): the read failed; fall through to the deadline check
ReadErr ==
    /\ At("main", "reading")
    /\ \E d \in ReadDurations :
        /\ ReadTakes(d)
        /\ elapsed' = elapsed + d
    /\ cur' = [cur EXCEPT !.readFails = @ + 1]
    /\ hist' = AfterRead(hist, file_key, "fail")
    /\ Goto("main", "poll_check")
    /\ UNCHANGED <<proc, test_count, max_wait, interval, i, file_key,
                   upload_time, bucket, active_files, lock, ec, active_count,
                   attempts, consistency_result, attempt, test_result,
                   results, statistics, slept, call, returned, api_log,
                   observed>>

\* Err(_): the attempt was cut by the 5 s timeout
ReadTimeout ==
    /\ At("main", "reading")
    /\ elapsed' = elapsed + PerAttemptTimeout
    /\ cur' = [cur EXCEPT !.readFails = @ + 1]
    /\ hist' = AfterRead(hist, file_key, "fail")
    /\ Goto("main", "poll_check")
    /\ UNCHANGED <<proc, test_count, max_wait, interval, i, file_key,
                   upload_time, bucket, active_files, lock, ec, active_count,
                   attempts, consistency_result, attempt, test_result,
                   results, statistics, slept, call, returned, api_log,
                   observed>>

\* mutant: the poll gives up after its first failed attempt
DeadlinePassedAlways == elapsed >= 0

\* mutant: > for >=
DeadlinePassedStrict == elapsed > from_secs(max_wait)

\* if start_time.elapsed() >= max_duration
DeadlinePassed == elapsed >= from_secs(max_wait)

\* the deadline check after a failed attempt: Err(timed out) or go to sleep
PollCheck ==
    /\ At("main", "poll_check")
    /\ IF DeadlinePassed
       THEN /\ consistency_result' = Err(attempts)
            /\ cur' = [cur EXCEPT !.poll = "timeout"]
            /\ Goto("main", AfterPoll(FALSE))
       ELSE /\ Goto("main", "poll_sleep")
            /\ UNCHANGED <<consistency_result, cur>>
    /\ UNCHANGED <<proc, test_count, max_wait, interval, i, file_key,
                   upload_time, bucket, active_files, lock, ec, active_count,
                   elapsed, attempts, attempt, test_result, results,
                   statistics, hist, slept, call, returned, api_log, observed>>

\* sleep(check_interval).await
PollSleep ==
    /\ At("main", "poll_sleep")
    /\ elapsed' = elapsed + from_millis(interval)
    /\ cur' = [cur EXCEPT !.pollSleeps = @ + 1]
    /\ Goto("main", "poll_loop")
    /\ UNCHANGED <<proc, test_count, max_wait, interval, i, file_key,
                   upload_time, bucket, active_files, lock, ec, active_count,
                   attempts, consistency_result, attempt, test_result,
                   results, statistics, hist, slept, call, returned, api_log,
                   observed>>

\* ------------------------------------- CleanupManager::cleanup_file
\* cleanup_file(&file_key) is called; for attempt in 1..=3
\* (the locals of test_read_consistency are gone)
CleanupCall ==
    /\ At("main", "cleanup")
    /\ attempt' = 1
    /\ elapsed' = 0
    /\ attempts' = 0
    /\ cur' = [cur EXCEPT !.cleanupCalls = @ + 1]
    /\ Goto("main", "cleanup_loop")
    /\ UNCHANGED <<proc, test_count, max_wait, interval, i, file_key,
                   upload_time, bucket, active_files, lock, ec, active_count,
                   consistency_result, test_result, results, statistics, hist,
                   slept, call, returned, api_log, observed>>

\* self.bucket.delete_object(file_key) is issued
CleanupIssue ==
    /\ At("main", "cleanup_loop")
    /\ hist' = [hist EXCEPT ![file_key].cleanupDeletes = @ + 1]
    /\ Goto("main", "deleting")
    /\ UNCHANGED <<proc, test_count, max_wait, interval, i, file_key,
                   upload_time, bucket, active_files, lock, ec, active_count,
                   elapsed, attempts, consistency_result, attempt,
                   test_result, results, statistics, cur, slept, call,
                   returned, api_log, observed>>

\* mutant: a successful delete returns without unregister_file
AfterDeleteOkReturn == "cleanup_return"

\* Ok(_) => { debug!; self.unregister_file(file_key).await; return; }
AfterDeleteOk == "unregister"

\* Ok(_): unregister_file and return
CleanupDeleteOk ==
    /\ At("main", "deleting")
    /\ bucket' = bucket \ {file_key}
    /\ hist' = [hist EXCEPT ![file_key].deletesOk = @ + 1]
    /\ cur' = [cur EXCEPT !.cleanupOkAt = attempt]
    /\ Goto("main", AfterDeleteOk)
    /\ UNCHANGED <<proc, test_count, max_wait, interval, i, file_key,
                   upload_time, active_files, lock, ec, active_count, elapsed,
                   attempts, consistency_result, attempt, test_result,
                   results, statistics, slept, call, returned, api_log,
                   observed>>

\* mutant: no retry
AfterDeleteErrNoRetry(a) == "cleanup_return"

\* mutant: the loop gives up after the second attempt
AfterDeleteErrGiveUpAtSecond(a) ==
    IF a = 2 THEN "cleanup_return" ELSE "cleanup_sleep"

\* Err(e): if attempt == 3 { error!(..) } else { warn!(..); sleep(1 s) }
AfterDeleteErr(a) ==
    IF a = CleanupAttempts THEN "cleanup_return" ELSE "cleanup_sleep"

CleanupDeleteErr ==
    /\ At("main", "deleting")
    /\ Goto("main", AfterDeleteErr(attempt))
    /\ UNCHANGED <<proc, test_count, max_wait, interval, i, file_key,
                   upload_time, bucket, active_files, lock, ec, active_count,
                   elapsed, attempts, consistency_result, attempt,
                   test_result, results, statistics, cur, hist, slept, call,
                   returned, api_log, observed>>

\* sleep(Duration::from_millis(1000)).await, then the next attempt
CleanupSleep ==
    /\ At("main", "cleanup_sleep")
    /\ attempt' = attempt + 1
    /\ cur' = [cur EXCEPT !.cleanupSleeps = @ + 1]
    /\ Goto("main", "cleanup_loop")
    /\ UNCHANGED <<proc, test_count, max_wait, interval, i, file_key,
                   upload_time, bucket, active_files, lock, ec, active_count,
                   elapsed, attempts, consistency_result, test_result,
                   results, statistics, hist, slept, call, returned, api_log,
                   observed>>

\* ------------------------------------- CleanupManager::unregister_file
UnregisterLock ==
    /\ At("main", "unregister")
    /\ lock = "free"
    /\ lock' = "main"
    /\ Goto("main", "unregister_retain")
    /\ UNCHANGED <<proc, test_count, max_wait, interval, i, file_key,
                   upload_time, bucket, active_files, ec, active_count,
                   elapsed, attempts, consistency_result, attempt,
                   test_result, results, statistics, cur, hist, slept, call,
                   returned, api_log, observed>>

\* mutant: nothing is removed
retainAll(files, key) == files

\* mutant: only the first occurrence is removed
retain_all_but_first(files, key) ==
    IF \E n \in 1..Len(files) : files[n] = key
    THEN LET first == CHOOSE n \in 1..Len(files) :
                 files[n] = key /\ \A m \in 1..(n - 1) : files[m] /= key
         IN  SubSeq(files, 1, first - 1) \o SubSeq(files, first + 1, Len(files))
    ELSE files

\* active_files.retain(|f| f != file_key)
retain(files, key) == SelectSeq(files, LAMBDA f : f /= key)

UnregisterRetain ==
    /\ At("main", "unregister_retain")
    /\ active_files' = retain(active_files, file_key)
    /\ lock' = "free"
    /\ Goto("main", "cleanup_return")
    /\ UNCHANGED <<proc, test_count, max_wait, interval, i, file_key,
                   upload_time, bucket, ec, active_count, elapsed, attempts,
                   consistency_result, attempt, test_result, results,
                   statistics, cur, hist, slept, call, returned, api_log,
                   observed>>

\* mutant: a cleanup whose deletes all failed fails the test
MakeTestResultCleanupAware(key, upload, res) ==
    IF res.ok /\ cur.cleanupOkAt > 0
    THEN TestResultSuccess(key, upload, res.time, res.attempts)
    ELSE TestResultFailure(key, upload, "timeout")

\* cleanup_file has returned; test_single_file builds its TestResult from
\* consistency_result alone
MakeTestResult(key, upload, res) ==
    IF res.ok THEN TestResultSuccess(key, upload, res.time, res.attempts)
    ELSE TestResultFailure(key, upload, "timeout")

CleanupReturn ==
    /\ At("main", "cleanup_return")
    /\ cur' = [cur EXCEPT !.cleanupReturned = TRUE]
    /\ attempt' = 0
    /\ test_result' =
          MakeTestResult(file_key, upload_time, consistency_result)
    /\ Goto("main", "push")
    /\ UNCHANGED <<proc, test_count, max_wait, interval, i, file_key,
                   upload_time, bucket, active_files, lock, ec, active_count,
                   elapsed, attempts, consistency_result, results, statistics,
                   hist, slept, call, returned, api_log, observed>>

\* ------------------------------------- CleanupManager::emergency_cleanup
\* run by the main task (from final_cleanup_check) or by the hook task
EcDeleteField(t) == IF t = "main" THEN "finalDeletes" ELSE "hookDeletes"
EcReturnTo(t) == IF t = "main" THEN "report" ELSE "hook_exit"

\* let active_files_guard = self.active_files.lock().await
EcLock(t) ==
    /\ At(t, "ec_start")
    /\ lock = "free"
    /\ lock' = t
    /\ Goto(t, "ec_clone")
    /\ UNCHANGED <<proc, test_count, max_wait, interval, i, file_key,
                   upload_time, bucket, active_files, ec, active_count,
                   elapsed, attempts, consistency_result, attempt,
                   test_result, results, statistics, cur, hist, slept, call,
                   returned, api_log, observed>>

\* mutant: the guard of the snapshot lives to the end of the function
LockAfterSnapshotHeld(t) == t

\* the guard lives in the block that takes the snapshot and is dropped at
\* its end, before the first delete
LockAfterSnapshot(t) == "free"

\* active_files_guard.clone(); if active_files.is_empty() { return }
EcClone(t) ==
    /\ At(t, "ec_clone")
    /\ lock' = LockAfterSnapshot(t)
    /\ IF active_files = <<>>
       THEN /\ ec' = [ec EXCEPT ![t] =
                        [snap |-> <<>>, idx |-> 1, issued |-> <<>>,
                         ret |-> "empty", left |-> Len(active_files)]]
            /\ Goto(t, EcReturnTo(t))
       ELSE /\ ec' = [ec EXCEPT ![t] =
                        [snap |-> active_files, idx |-> 1, issued |-> <<>>,
                         ret |-> "none", left |-> 0]]
            /\ Goto(t, "ec_loop")
    /\ UNCHANGED <<proc, test_count, max_wait, interval, i, file_key,
                   upload_time, bucket, active_files, active_count, elapsed,
                   attempts, consistency_result, attempt, test_result,
                   results, statistics, cur, hist, slept, call, returned,
                   api_log, observed>>

\* for file_key in &active_files: delete_object(file_key) is issued, once
EcIssue(t) ==
    /\ At(t, "ec_loop")
    /\ ec[t].idx <= Len(ec[t].snap)
    /\ LET k == ec[t].snap[ec[t].idx] IN
        /\ ec' = [ec EXCEPT ![t].issued = Append(@, k)]
        /\ hist' = [hist EXCEPT ![k][EcDeleteField(t)] = @ + 1]
    /\ Goto(t, "ec_deleting")
    /\ UNCHANGED <<proc, test_count, max_wait, interval, i, file_key,
                   upload_time, bucket, active_files, lock, active_count,
                   elapsed, attempts, consistency_result, attempt,
                   test_result, results, statistics, cur, slept, call,
                   returned, api_log, observed>>

\* Ok(_): debug!; the loop goes on
EcDeleteOk(t) ==
    /\ At(t, "ec_deleting")
    /\ LET k == ec[t].snap[ec[t].idx] IN
        /\ bucket' = bucket \ {k}
        /\ hist' = [hist EXCEPT ![k].deletesOk = @ + 1]
    /\ ec' = [ec EXCEPT ![t].idx = @ + 1]
    /\ Goto(t, "ec_loop")
    /\ UNCHANGED <<proc, test_count, max_wait, interval, i, file_key,
                   upload_time, active_files, lock, active_count, elapsed,
                   attempts, consistency_result, attempt, test_result,
                   results, statistics, cur, slept, call, returned, api_log,
                   observed>>

\* Err(e): warn!; the loop goes on, no retry
EcDeleteErr(t) ==
    /\ At(t, "ec_deleting")
    /\ ec' = [ec EXCEPT ![t].idx = @ + 1]
    /\ Goto(t, "ec_loop")
    /\ UNCHANGED <<proc, test_count, max_wait, interval, i, file_key,
                   upload_time, bucket, active_files, lock, active_count,
                   elapsed, attempts, consistency_result, attempt,
                   test_result, results, statistics, cur, hist, slept, call,
                   returned, api_log, observed>>

\* the loop is over: let mut active_files_guard = self.active_files.lock()
EcClearLock(t) ==
    /\ At(t, "ec_loop")
    /\ ec[t].idx > Len(ec[t].snap)
    /\ lock = "free"
    /\ lock' = t
    /\ Goto(t, "ec_clear")
    /\ UNCHANGED <<proc, test_count, max_wait, interval, i, file_key,
                   upload_time, bucket, active_files, ec, active_count,
                   elapsed, attempts, consistency_result, attempt,
                   test_result, results, statistics, cur, hist, slept, call,
                   returned, api_log, observed>>

\* mutant: the list is not cleared
clearNothing(files, snap) == files

\* active_files_guard.clear()
clear(files, snap) == <<>>

\* clear the list, drop the guard, return
EcClear(t) ==
    /\ At(t, "ec_clear")
    /\ active_files' = clear(active_files, ec[t].snap)
    /\ lock' = "free"
    /\ ec' = [ec EXCEPT ![t].ret = "drained",
                        ![t].left = Len(active_files')]
    /\ Goto(t, EcReturnTo(t))
    /\ UNCHANGED <<proc, test_count, max_wait, interval, i, file_key,
                   upload_time, bucket, active_count, elapsed, attempts,
                   consistency_result, attempt, test_result, results,
                   statistics, cur, hist, slept, call, returned, api_log,
                   observed>>

\* ------------------------------ run_consistency_test: after the loop
\* mutant: the report is assembled right after the statistics
AfterStatisticsReport == "report"

\* self.cleanup_manager.final_cleanup_check().await follows the statistics
AfterStatistics == "final_check"

\* let statistics = statistics::calculate_statistics(&results); a panic
\* unwinds out of main and ends the process (status 101).  The build is
\* with or without overflow checks.
Statistics ==
    /\ At("main", "stats")
    /\ \E overflow_checks \in BOOLEAN :
           \E r \in {calculate_statistics(results, overflow_checks)} :
               IF r.panic
               THEN /\ proc' = "panic"
                    /\ UNCHANGED <<pc, statistics>>
               ELSE /\ statistics' = r.value
                    /\ Goto("main", AfterStatistics)
                    /\ UNCHANGED <<proc>>
    /\ UNCHANGED <<test_count, max_wait, interval, i, file_key, upload_time,
                   bucket, active_files, lock, ec, active_count, elapsed,
                   attempts, consistency_result, attempt, test_result,
                   results, cur, hist, slept, call, returned, api_log,
                   observed>>

\* final_cleanup_check: active_file_count() takes the lock
FinalCheckLock ==
    /\ At("main", "final_check")
    /\ lock = "free"
    /\ lock' = "main"
    /\ Goto("main", "final_count")
    /\ UNCHANGED <<proc, test_count, max_wait, interval, i, file_key,
                   upload_time, bucket, active_files, ec, active_count,
                   elapsed, attempts, consistency_result, attempt,
                   test_result, results, statistics, cur, hist, slept, call,
                   returned, api_log, observed>>

\* mutant: the final sweep is never run
AfterFinalCountSkip(n) == "report"

\* if active_count > 0 { emergency_cleanup() } else { debug! }
AfterFinalCount(n) == IF n > 0 THEN "ec_start" ELSE "report"

\* active_files.len(), the guard is dropped, the count decides
FinalCount ==
    /\ At("main", "final_count")
    /\ active_count' = Len(active_files)
    /\ lock' = "free"
    /\ Goto("main", AfterFinalCount(Len(active_files)))
    /\ UNCHANGED <<proc, test_count, max_wait, interval, i, file_key,
                   upload_time, bucket, active_files, ec, elapsed, attempts,
                   consistency_result, attempt, test_result, results,
                   statistics, cur, hist, slept, call, returned, api_log,
                   observed>>

\* ConsistencyReport::new(..); Ok(report)
Report ==
    /\ At("main", "report")
    /\ Goto("main", "done")
    /\ UNCHANGED <<proc, test_count, max_wait, interval, i, file_key,
                   upload_time, bucket, active_files, lock, ec, active_count,
                   elapsed, attempts, consistency_result, attempt,
                   test_result, results, statistics, cur, hist, slept, call,
                   returned, api_log, observed>>

\* the caller returns from main: the process exits with status 0
ExitNormal ==
    /\ At("main", "done")
    /\ proc' = "exit0"
    /\ UNCHANGED <<pc, test_count, max_wait, interval, i, file_key,
                   upload_time, bucket, active_files, lock, ec, active_count,
                   elapsed, attempts, consistency_result, attempt,
                   test_result, results, statistics, cur, hist, slept, call,
                   returned, api_log, observed>>

\* ------------------------------------------- setup_cleanup_handler
\* mutant: the hook exits without the drain
AfterInterruptExitFirst == "hook_exit"

\* Ok(()) => { warn!; cleanup_manager.emergency_cleanup().await; .. }
AfterInterrupt == "ec_start"

\* tokio::signal::ctrl_c() resolves: emergency_cleanup is called
Interrupt ==
    /\ At("hook", "waiting")
    /\ test_count <= MaxInterruptedTests
    /\ Goto("hook", AfterInterrupt)
    /\ UNCHANGED <<proc, test_count, max_wait, interval, i, file_key,
                   upload_time, bucket, active_files, lock, ec, active_count,
                   elapsed, attempts, consistency_result, attempt,
                   test_result, results, statistics, cur, hist, slept, call,
                   returned, api_log, observed>>

\* std::process::exit(1)
HookExit ==
    /\ At("hook", "hook_exit")
    /\ proc' = "exit1"
    /\ UNCHANGED <<pc, test_count, max_wait, interval, i, file_key,
                   upload_time, bucket, active_files, lock, ec, active_count,
                   elapsed, attempts, consistency_result, attempt,
                   test_result, results, statistics, cur, hist, slept, call,
                   returned, api_log, observed>>

EmergencyCleanup(t) ==
    \/ EcLock(t)
    \/ EcClone(t)
    \/ EcIssue(t)
    \/ EcDeleteOk(t)
    \/ EcDeleteErr(t)
    \/ EcClearLock(t)
    \/ EcClear(t)

Next ==
    \/ LoopHead
    \/ PutOk
    \/ PutErr
    \/ SampleUploadTime
    \/ RegisterLock
    \/ RegisterPush
    \/ PollStart
    \/ PollAttempt
    \/ ReadOk
    \/ ReadErr
    \/ ReadTimeout
    \/ PollCheck
    \/ PollSleep
    \/ CleanupCall
    \/ CleanupIssue
    \/ CleanupDeleteOk
    \/ CleanupDeleteErr
    \/ CleanupSleep
    \/ UnregisterLock
    \/ UnregisterRetain
    \/ CleanupReturn
    \/ PushResult
    \/ InterTestSleep
    \/ Statistics
    \/ FinalCheckLock
    \/ FinalCount
    \/ Report
    \/ ExitNormal
    \/ Interrupt
    \/ HookExit
    \/ \E t \in Tasks : EmergencyCleanup(t)

Spec == Init /\ [][Next]_vars

\* The steps of test_read_consistency.  The runtime runs the task whenever
\* it can make a step: the sleep ends, and the read completes, under its
\* timeout at the latest.
test_read_consistency ==
    \/ PollStart
    \/ PollAttempt
    \/ ReadOk
    \/ ReadErr
    \/ ReadTimeout
    \/ PollCheck
    \/ PollSleep

\* run_consistency_test in a process that receives no interrupt signal
run_consistency_test ==
    \/ LoopHead
    \/ PutOk
    \/ PutErr
    \/ SampleUploadTime
    \/ RegisterLock
    \/ RegisterPush
    \/ test_read_consistency
    \/ CleanupCall
    \/ CleanupIssue
    \/ CleanupDeleteOk
    \/ CleanupDeleteErr
    \/ CleanupSleep
    \/ UnregisterLock
    \/ UnregisterRetain
    \/ CleanupReturn
    \/ PushResult
    \/ InterTestSleep
    \/ Statistics
    \/ FinalCheckLock
    \/ FinalCount
    \/ Report
    \/ ExitNormal
    \/ EmergencyCleanup("main")

RunSpec ==
    Init /\ [][run_consistency_test]_vars /\ WF_vars(test_read_consistency)

\* ------------------------------------ the statistics functions, called
\* The signed differences the durations of the argument lists come from
SampleDurations == {-1000, 0, 100, 300, 1000}

DurationValues == {as_u64(d) : d \in SampleDurations}

\* a result with success = true and no duration: the fields are public
SuccessWithoutDuration ==
    [TestResultFailure(1, 0, "none") EXCEPT !.success = TRUE]

ResultValues ==
    {TestResultSuccess(1, 0, d, 1) : d \in SampleDurations}
        \cup {TestResultFailure(1, 0, "timeout"), SuccessWithoutDuration}

ResultLists == UNION {[1..n -> ResultValues] : n \in 0..MaxResults}

IsSorted(ds) == \A k \in 1..(Len(ds) - 1) : U64Le(ds[k], ds[k + 1])

\* 100, 200, .., 100 * n
Ramp(n) == [k \in 1..n |-> as_u64(100 * k)]

SortedLists ==
    {Ramp(n) : n \in 0..MaxSamples}
        \cup {ds \in UNION {[1..n -> DurationValues] : n \in 0..MaxResults} :
                 IsSorted(ds)}

Calls ==
    {[NoCall EXCEPT !.fn = "calculate_statistics", !.results = rs,
                    !.overflow_checks = oc] :
         rs \in ResultLists, oc \in BOOLEAN}
    \cup {[NoCall EXCEPT !.fn = "calculate_median", !.durations = ds,
                         !.overflow_checks = oc] :
              ds \in SortedLists, oc \in BOOLEAN}
    \cup {[NoCall EXCEPT !.fn = "calculate_percentile", !.durations = ds,
                         !.percentile = p] :
              ds \in SortedLists, p \in Percentiles}

CallsInit ==
    /\ ProgramInit
    /\ test_count = 0
    /\ max_wait = 0
    /\ interval = 0
    /\ call \in Calls
    /\ returned = NoReturn
    /\ api_log = <<>>
    /\ observed = NoObserved

CallStatistics ==
    /\ call.fn = "calculate_statistics"
    /\ ~returned.done
    /\ LET r == calculate_statistics(call.results, call.overflow_checks)
       IN  returned' = [done |-> TRUE, panic |-> r.panic, value |-> r.value]
    /\ UNCHANGED <<pc, proc, test_count, max_wait, interval, i, file_key,
                   upload_time, bucket, active_files, lock, ec, active_count,
                   elapsed, attempts, consistency_result, attempt,
                   test_result, results, statistics, cur, hist, slept, call,
                   api_log, observed>>

CallMedian ==
    /\ call.fn = "calculate_median"
    /\ ~returned.done
    /\ LET r == calculate_median(call.durations, call.overflow_checks)
       IN  returned' = [done |-> TRUE, panic |-> r.panic, value |-> r.value]
    /\ UNCHANGED <<pc, proc, test_count, max_wait, interval, i, file_key,
                   upload_time, bucket, active_files, lock, ec, active_count,
                   elapsed, attempts, consistency_result, attempt,
                   test_result, results, statistics, cur, hist, slept, call,
                   api_log, observed>>

CallPercentile ==
    /\ call.fn = "calculate_percentile"
    /\ ~returned.done
    /\ returned' =
           [done |-> TRUE, panic |-> FALSE,
            value |-> calculate_percentile(call.durations, call.percentile)]
    /\ UNCHANGED <<pc, proc, test_count, max_wait, interval, i, file_key,
                   upload_time, bucket, active_files, lock, ec, active_count,
                   elapsed, attempts, consistency_result, attempt,
                   test_result, results, statistics, cur, hist, slept, call,
                   api_log, observed>>

CallsNext ==
    \/ CallStatistics
    \/ CallMedian
    \/ CallPercentile

CallsSpec == CallsInit /\ [][CallsNext]_vars

\* ------------------------------------ CleanupManager, used on its own
\* (as the tests of cleanup.rs do: one caller, no run in progress)
ApiKeys == {"test-file-1", "test-file-2"}

ApiInit ==
    /\ ProgramInit
    /\ test_count = 0
    /\ max_wait = 0
    /\ interval = 0
    /\ call = NoCall
    /\ returned = NoReturn
    /\ api_log = <<>>
    /\ observed = NoObserved

\* register_file(file_key): lock, push, the guard is dropped
register_file(key) ==
    /\ Len(api_log) < MaxCalls
    /\ lock = "free"
    /\ active_files' = push(active_files, key)
    /\ api_log' = Append(api_log, [op |-> "register_file", key |-> key])
    /\ UNCHANGED <<pc, proc, test_count, max_wait, interval, i, file_key,
                   upload_time, bucket, lock, ec, active_count, elapsed,
                   attempts, consistency_result, attempt, test_result,
                   results, statistics, cur, hist, slept, call, returned,
                   observed>>

\* unregister_file(file_key): lock, retain, the guard is dropped
unregister_file(key) ==
    /\ Len(api_log) < MaxCalls
    /\ lock = "free"
    /\ active_files' = retain(active_files, key)
    /\ api_log' = Append(api_log, [op |-> "unregister_file", key |-> key])
    /\ UNCHANGED <<pc, proc, test_count, max_wait, interval, i, file_key,
                   upload_time, bucket, lock, ec, active_count, elapsed,
                   attempts, consistency_result, attempt, test_result,
                   results, statistics, cur, hist, slept, call, returned,
                   observed>>

\* active_file_count(): lock, active_files.len()
active_file_count ==
    /\ lock = "free"
    /\ observed' = [observed EXCEPT !.count = Len(active_files),
                                    !.count_at = Len(api_log)]
    /\ UNCHANGED <<pc, proc, test_count, max_wait, interval, i, file_key,
                   upload_time, bucket, active_files, lock, ec, active_count,
                   elapsed, attempts, consistency_result, attempt,
                   test_result, results, statistics, cur, hist, slept, call,
                   returned, api_log>>

\* get_active_files(): lock, active_files.clone()
get_active_files ==
    /\ lock = "free"
    /\ observed' = [observed EXCEPT !.files = active_files,
                                    !.files_at = Len(api_log)]
    /\ UNCHANGED <<pc, proc, test_count, max_wait, interval, i, file_key,
                   upload_time, bucket, active_files, lock, ec, active_count,
                   elapsed, attempts, consistency_result, attempt,
                   test_result, results, statistics, cur, hist, slept, call,
                   returned, api_log>>

ApiNext ==
    \/ \E key \in ApiKeys : register_file(key)
    \/ \E key \in ApiKeys : unregister_file(key)
    \/ active_file_count
    \/ get_active_files

ApiSpec == ApiInit /\ [][ApiNext]_vars

\* ------------------- CleanupManager, shared by a caller and the hook
\* One task calls register_file, as test_single_file does after each put
\* (with a fresh key each time), while the hook task runs
\* emergency_cleanup and exits the process.
DrainInit == ApiInit

Fresh(key) == \A n \in 1..Len(api_log) : api_log[n].key /= key

DrainNext ==
    \/ \E key \in Keys : Running /\ Fresh(key) /\ register_file(key)
    \/ Interrupt
    \/ EmergencyCleanup("hook")
    \/ HookExit

DrainSpec == DrainInit /\ [][DrainNext]_vars

\* ---------------------------------------------------------------- claims
Range(q) == {q[n] : n \in 1..Len(q)}
Exited == proc /= "running"
Uploaded(k) == hist[k].put = "ok"
Deletes(k) ==
    hist[k].cleanupDeletes + hist[k].finalDeletes + hist[k].hookDeletes
InIteration == file_key \in Keys
NoInterrupt == pc["hook"] = "waiting"

\* C1 as stated, in its case of a normal completion that no interrupt
\* disturbs: once the process has exited with status 0, every object whose
\* put succeeded is out of the bucket, a delete of its key having
\* succeeded, whatever the outcomes of the storage calls.
C1_AllRemovedAtNormalExit ==
    (proc = "exit0" /\ NoInterrupt) =>
        \A k \in Keys :
            Uploaded(k) => (k \notin bucket /\ hist[k].deletesOk > 0)

\* C1 amended: once the process has exited, an object whose put succeeded
\* is out of the bucket exactly when a delete issued for its key succeeded;
\* after a normal completion without interrupt an object is left in the
\* bucket only when all four deletes issued for its key, three by
\* cleanup_file and one by final_cleanup_check, have failed.
C1_RemovedUnlessDeletesFailed ==
    Exited =>
        \A k \in Keys :
            Uploaded(k) =>
                /\ (k \notin bucket) <=> (hist[k].deletesOk > 0)
                /\ (proc = "exit0" /\ NoInterrupt /\ k \in bucket) =>
                       /\ hist[k].cleanupDeletes = 3
                       /\ hist[k].finalDeletes = 1

\* C1 witness: a normal exit that leaves an uploaded object behind
C1_Witness ==
    /\ proc = "exit0"
    /\ NoInterrupt
    /\ \E k \in Keys : Uploaded(k) /\ k \in bucket /\ Deletes(k) = 4

\* C2 as stated (at-least-once cleanup): once the process has exited, at
\* least one storage delete has been issued for every key whose put
\* succeeded, wherever in the iteration the shutdown hook fired.
C2_AtLeastOneDeleteIssued ==
    Exited => \A k \in Keys : Uploaded(k) => Deletes(k) >= 1

\* C3: cleanup_file is called at most once in an iteration and only after
\* the poll has returned (Ok or timed out); it is the step that follows the
\* poll's return, and an iteration whose put succeeded ends with one call
\* of cleanup_file that has returned.
C3_CleanupOnceAfterPoll ==
    /\ cur.cleanupCalls <= 1
    /\ cur.cleanupCalls = 1 => cur.poll \in {"ok", "timeout"}
    /\ (cur.poll /= "none" /\ pc["main"] /= "cleanup") => cur.cleanupCalls = 1
    /\ (pc["main"] = "push" /\ Uploaded(file_key)) =>
           /\ cur.poll \in {"ok", "timeout"}
           /\ cur.cleanupCalls = 1
           /\ cur.cleanupReturned

\* C3 witness: an iteration whose poll timed out ends, cleanup_file called
C3_Witness ==
    /\ pc["main"] = "push"
    /\ cur.poll = "timeout"
    /\ cur.cleanupCalls = 1
    /\ cur.cleanupReturned

\* C4: within an iteration: put acknowledged, then upload_time sampled,
\* then the key registered, then the first read issued, then the poll
\* returns, then the first delete of cleanup_file issued; a key whose
\* iteration has not begun, or whose put is still in flight, has no read,
\* no registration and no delete; final_cleanup_check deletes only keys
\* whose iteration is over.
C4_OrderWithinIteration ==
    /\ \A k \in Keys :
           (k > Len(results) /\ k /= file_key) => hist[k] = HistInit
    /\ \A k \in Keys : hist[k].put = "none" => hist[k] = HistInit
    /\ \A k \in Keys : hist[k].finalDeletes > 0 => k <= Len(results)
    /\ ~InIteration => cur = CurInit
    /\ InIteration =>
           /\ hist[file_key].put = "none" => cur = CurInit
           /\ cur.sampled => hist[file_key].put = "ok"
           /\ hist[file_key].registered => cur.sampled
           /\ cur.reads > 0 => hist[file_key].registered
           /\ cur.poll /= "none" => cur.reads > 0
           /\ cur.cleanupCalls > 0 => cur.poll /= "none"
           /\ hist[file_key].cleanupDeletes > 0 => cur.cleanupCalls > 0

\* C4 witness: the first delete of an iteration in flight, all the earlier
\* events of the iteration having happened
C4_Witness ==
    /\ pc["main"] = "deleting"
    /\ hist[file_key].cleanupDeletes = 1
    /\ cur.poll = "ok"
    /\ cur.reads = 2
    /\ hist[file_key].registered

\* C5: when the k-th delete of cleanup_file is the first to succeed, k is
\* in 1..3, exactly k deletes have been issued (k - 1 of them followed by a
\* sleep), cleanup_file goes on to unregister and return, and when it has
\* returned the key is not in active_files and the result of the iteration
\* is the poll's, no error of the cleanup in it.
C5_CleanupStopsAtFirstSuccess ==
    (InIteration /\ cur.cleanupOkAt > 0) =>
        /\ cur.cleanupOkAt \in 1..3
        /\ hist[file_key].cleanupDeletes = cur.cleanupOkAt
        /\ cur.cleanupSleeps = cur.cleanupOkAt - 1
        /\ pc["main"] \in
               {"unregister", "unregister_retain", "cleanup_return", "push"}
        /\ cur.cleanupReturned =>
               /\ pc["main"] = "push"
               /\ file_key \notin Range(active_files)
               /\ test_result.success = consistency_result.ok
               /\ test_result.error_details \in {"none", "timeout"}

\* C5 witness: cleanup_file has returned after the second delete succeeded
C5_Witness ==
    /\ pc["main"] = "push"
    /\ cur.cleanupReturned
    /\ cur.cleanupOkAt = 2
    /\ hist[file_key].cleanupDeletes = 2

Count(q, k) == Cardinality({n \in 1..Len(q) : q[n] = k})

\* C7: emergency_cleanup, run by either task, issues its deletes in the
\* order of its snapshot, one per key and none twice; when it returns it
\* has issued exactly one delete for each key of the snapshot and
\* active_files is empty, whatever the deletes returned.
C7_DrainOncePerKeyThenClear ==
    \A t \in Tasks :
        /\ pc[t] \in {"ec_loop", "ec_clear"} =>
               ec[t].issued = SubSeq(ec[t].snap, 1, ec[t].idx - 1)
        /\ pc[t] = "ec_deleting" =>
               ec[t].issued = SubSeq(ec[t].snap, 1, ec[t].idx)
        /\ ec[t].ret = "empty" =>
               /\ ec[t].snap = <<>>
               /\ ec[t].issued = <<>>
               /\ ec[t].left = 0
        /\ ec[t].ret = "drained" =>
               /\ ec[t].snap /= <<>>
               /\ ec[t].issued = ec[t].snap
               /\ ec[t].left = 0
        /\ \A k \in Keys :
               /\ hist[k][EcDeleteField(t)] = Count(ec[t].issued, k)
               /\ Count(ec[t].snap, k) <= 1

\* C7 witness: a drain of two keys has returned, every delete having failed
C7_Witness ==
    /\ ec["main"].ret = "drained"
    /\ Len(ec["main"].snap) = 2
    /\ \A k \in Range(ec["main"].snap) :
           k \in bucket /\ hist[k].deletesOk = 0
    /\ active_files = <<>>

AfterLoop ==
    {"final_check", "final_count", "ec_start", "ec_clone", "ec_loop",
     "ec_deleting", "ec_clear", "report", "done"}

\* C8: final_cleanup_check runs after the statistics; it calls
\* emergency_cleanup exactly when the count it read is positive, no delete
\* of the final sweep is issued when the count was 0, and in a run without
\* interrupt active_files is empty once it has returned.
C8_FinalCleanupCheck ==
    /\ pc["main"] \in AfterLoop => statistics.set
    /\ pc["main"] \notin AfterLoop => (ec["main"] = EcInit /\ active_count = 0)
    /\ pc["main"] \in {"ec_start", "ec_clone", "ec_loop", "ec_deleting",
                       "ec_clear"} => active_count > 0
    /\ pc["main"] \in {"report", "done"} =>
           /\ (active_count > 0) <=> (ec["main"].ret /= "none")
           /\ active_count = 0 =>
                  \A k \in Keys : hist[k].finalDeletes = 0
           /\ \A k \in Keys : hist[k].finalDeletes <= 1
           /\ NoInterrupt => active_files = <<>>

\* C8 witness: final_cleanup_check found a key, drained and returned
C8_Witness ==
    /\ pc["main"] = "done"
    /\ NoInterrupt
    /\ active_count = 1
    /\ ec["main"].ret = "drained"
    /\ active_files = <<>>

LockedSteps ==
    {"register_push", "unregister_retain", "final_count", "ec_clone",
     "ec_clear"}

\* C9: a task holds the lock of active_files only at the in-memory step of
\* register_file (push), unregister_file (retain), active_file_count
\* (len) and emergency_cleanup (clone, clear); it never holds it while one
\* of its storage calls is in flight or while it sleeps.
C9_LockNotHeldAcrossIO ==
    /\ lock \in Tasks \cup {"free"}
    /\ \A t \in Tasks :
           /\ lock = t => pc[t] \in LockedSteps
           /\ pc[t] \in {"put", "reading", "deleting", "ec_deleting",
                         "poll_sleep", "cleanup_sleep", "inter_sleep"} =>
                  lock /= t

\* C9 witness: the main task is inside unregister_file, holding the lock,
\* while a delete of the hook's drain is in flight
C9_Witness ==
    /\ pc["hook"] = "ec_deleting"
    /\ pc["main"] = "unregister_retain"
    /\ lock = "main"

\* C10: with max_wait = 0 a poll makes at most one read attempt and never
\* sleeps; when that attempt fails (an error or the 5 s timeout) the poll
\* returns the timeout error with an attempt count of 1.
C10_ZeroMaxWaitOneAttempt ==
    max_wait = 0 =>
        /\ cur.reads <= 1
        /\ cur.pollSleeps = 0
        /\ pc["main"] /= "poll_sleep"
        /\ cur.poll = "timeout" =>
               /\ cur.reads = 1
               /\ consistency_result = Err(1)

\* C10 witness: a poll with max_wait = 0 has just returned the timeout
C10_Witness ==
    /\ max_wait = 0
    /\ pc["main"] = "cleanup"
    /\ cur.poll = "timeout"
    /\ attempts = 1

PollSteps == {"poll_start", "poll_loop", "reading", "poll_check", "poll_sleep"}

\* C11: test_read_consistency returns Ok at the first read that completes
\* without error: the count it returns is the number of reads issued, at
\* least 1, all of them but the last have failed or timed out, each of
\* those was followed by one sleep, and once the poll has returned Ok the
\* iteration issues no further read and no further sleep of the poll.
C11_OkAtFirstSuccessfulRead ==
    /\ pc["main"] = "reading" => cur.readFails = cur.reads - 1
    /\ cur.poll = "ok" =>
           /\ pc["main"] \notin PollSteps
           /\ consistency_result.ok
           /\ consistency_result.attempts = cur.reads
           /\ cur.reads >= 1
           /\ cur.readFails = cur.reads - 1
           /\ cur.pollSleeps = cur.reads - 1

\* C11 witness: the poll has just returned Ok at its second read
C11_Witness ==
    /\ pc["main"] = "cleanup"
    /\ cur.poll = "ok"
    /\ cur.readFails = 1
    /\ consistency_result.attempts = 2

\* the main task leaves the step `where`
Leaves(where) == pc["main"] = where /\ pc'["main"] /= where

\* C12: the deadline check follows every failed or timed-out read and
\* nothing else; it returns the timeout error exactly when the time elapsed
\* since the start of the poll is at least max_wait, and otherwise the poll
\* sleeps check_interval and issues another read; a poll that returned the
\* timeout error has made at least one read, and every read of it failed.
C12_DeadlineCheckedAfterEveryFailure ==
    /\ [](/\ pc["main"] = "poll_check" =>
               (cur.readFails = cur.reads /\ cur.reads >= 1)
          /\ pc["main"] = "poll_sleep" =>
               (elapsed < from_secs(max_wait) /\ cur.readFails = cur.reads)
          /\ (pc["main"] = "cleanup" /\ cur.poll = "timeout") =>
               /\ elapsed >= from_secs(max_wait)
               /\ cur.reads >= 1
               /\ cur.readFails = cur.reads
               /\ consistency_result = Err(cur.reads))
    /\ [][/\ (Leaves("reading") /\ cur'.readFails > cur.readFails) =>
               pc'["main"] = "poll_check"
          /\ Leaves("poll_check") =>
               IF elapsed >= from_secs(max_wait)
               THEN cur'.poll = "timeout" /\ pc'["main"] = "cleanup"
               ELSE cur'.poll = "none" /\ pc'["main"] = "poll_sleep"
          /\ Leaves("poll_sleep") =>
               /\ pc'["main"] = "poll_loop"
               /\ elapsed' = elapsed + from_millis(interval)
               /\ attempts' = attempts]_vars

\* C12 witness: a read failed before the deadline, the poll has slept and
\* its next read is in flight
C12_Witness ==
    /\ pc["main"] = "reading"
    /\ max_wait > 0
    /\ cur.pollSleeps = 1
    /\ attempts = 2
    /\ elapsed < from_secs(max_wait)

\* C13 as stated: an object that was not readable within max_wait of the
\* start of the poll is marked as failed, that is, when the poll returns
\* and the result of the iteration is a success, the read that succeeded
\* completed at most max_wait after the start of the poll.
C13_SuccessOnlyWithinMaxWait ==
    (pc["main"] = "cleanup"
        /\ MakeTestResult(file_key, upload_time, consistency_result).success)
    => elapsed <= from_secs(max_wait)

UploadFailures == {"Upload failed: " \o e : e \in PutErrors}

\* C14: a failed put records a result with success = false,
\* total_attempts = 0, no first-success time, no duration and the text
\* "Upload failed: " followed by the cause; its key is never registered,
\* nothing is read or deleted for it, and the next iteration follows.
C14_PutFailure ==
    /\ \A k \in Keys :
           hist[k].put = "fail" =>
               /\ hist[k] = [HistInit EXCEPT !.put = "fail"]
               /\ k \notin Range(active_files)
               /\ k \notin bucket
               /\ \A t \in Tasks : k \notin Range(ec[t].snap)
               /\ k <= Len(results) =>
                      /\ ~results[k].success
                      /\ results[k].total_attempts = 0
                      /\ ~is_some(results[k].first_read_success_time)
                      /\ ~is_some(results[k].propagation_duration_ms)
                      /\ results[k].error_details \in UploadFailures
               /\ (k < test_count /\ pc["main"] \in AfterLoop \cup {"stats"})
                      => hist[k + 1].put /= "none"
    /\ (InIteration /\ hist[file_key].put = "fail") =>
           /\ pc["main"] = "push"
           /\ cur = [CurInit EXCEPT !.putError = cur.putError]
           /\ cur.putError \in PutErrors
           /\ test_result =
                  [file_key |-> file_key,
                   upload_time |-> upload_time,
                   first_read_success_time |-> NoTime,
                   propagation_duration_ms |-> NoDuration,
                   total_attempts |-> 0,
                   success |-> FALSE,
                   error_details |-> "Upload failed: " \o cur.putError]

\* C14 witness: the put of the first iteration failed and the put of the
\* second is in flight
C14_Witness ==
    /\ pc["main"] = "put"
    /\ file_key = 2
    /\ hist[1].put = "fail"
    /\ results[1].error_details = "Upload failed: ConnectionReset"

\* C15: whatever the puts, reads and deletes return, the loop runs all
\* test_count iterations: once it is left the results hold test_count
\* entries; the n-th entry is the result of the n-th iteration, and an entry
\* once pushed is never moved or changed.
C15_OneResultPerIterationInOrder ==
    /\ [](/\ Len(results) <= test_count
          /\ \A n \in 1..Len(results) : results[n].file_key = n
          /\ InIteration => file_key = Len(results) + 1
          /\ pc["main"] \in AfterLoop \cup {"stats"} =>
                 Len(results) = test_count)
    /\ [][/\ Len(results') >= Len(results)
          /\ \A n \in 1..Len(results) : results'[n] = results[n]
          /\ Len(results') > Len(results) =>
                 results' = Append(results, test_result)]_vars

\* C15 witness: a run without interrupt has returned its report of two
\* entries, the first a failed upload, the second a success whose object
\* no delete could remove
C15_Witness ==
    /\ pc["main"] = "done"
    /\ NoInterrupt
    /\ test_count = 2
    /\ Len(results) = 2
    /\ hist[1].put = "fail"
    /\ results[2].success
    /\ 2 \in bucket

\* C16: the result of an iteration is a success exactly when its put
\* succeeded and its poll returned Ok; when the put succeeded the result is
\* the one determined by upload_time and what the poll returned, whatever
\* the deletes of cleanup_file returned.
C16_SuccessIffPutAndPollOk ==
    /\ (pc["main"] = "push" /\ InIteration) =>
           /\ test_result.success <=>
                  (hist[file_key].put = "ok" /\ cur.poll = "ok")
           /\ hist[file_key].put = "ok" =>
                  test_result =
                      IF cur.poll = "ok"
                      THEN TestResultSuccess(file_key, upload_time,
                                             consistency_result.time,
                                             consistency_result.attempts)
                      ELSE TestResultFailure(file_key, upload_time, "timeout")
    /\ \A n \in 1..Len(results) :
           results[n].success => hist[n].put = "ok"

\* C16 witness: a success is recorded though the three deletes of
\* cleanup_file have failed
C16_Witness ==
    /\ pc["main"] = "push"
    /\ test_result.success
    /\ cur.cleanupOkAt = 0
    /\ hist[file_key].cleanupDeletes = 3
    /\ file_key \in bucket

\* the TestResults the run has produced: those pushed and the one that
\* test_single_file has just returned
Produced ==
    Range(results) \cup (IF pc["main"] = "push" THEN {test_result} ELSE {})

\* C17 as stated: in every TestResult, success is true exactly when
\* first_read_success_time and propagation_duration_ms are both present or
\* both absent.
C17_SuccessIffOptionsAgree ==
    \A r \in Produced :
        r.success <=>
            (is_some(r.first_read_success_time)
                 = is_some(r.propagation_duration_ms))

\* C17 amended: in every TestResult, first_read_success_time and
\* propagation_duration_ms are both present or both absent, and success is
\* true exactly when they are present.
C17_SuccessIffBothPresent ==
    \A r \in Produced :
        /\ is_some(r.first_read_success_time)
               = is_some(r.propagation_duration_ms)
        /\ r.success <=> is_some(r.first_read_success_time)
        /\ r.success <=> is_some(r.propagation_duration_ms)

\* C17 witness: the result of a poll that timed out has been pushed, both
\* options absent
C17_Witness ==
    /\ Len(results) >= 1
    /\ results[1].error_details = "timeout"
    /\ ~results[1].success
    /\ ~is_some(results[1].first_read_success_time)
    /\ ~is_some(results[1].propagation_duration_ms)

\* C18: a TestResult with success = false has no first-success time, no
\* duration and an error text; one with success = true has a first-success
\* time, a duration and no error text.
C18_FieldsBySuccess ==
    \A r \in Produced :
        IF r.success
        THEN /\ is_some(r.first_read_success_time)
             /\ is_some(r.propagation_duration_ms)
             /\ r.error_details = "none"
        ELSE /\ ~is_some(r.first_read_success_time)
             /\ ~is_some(r.propagation_duration_ms)
             /\ r.error_details \in UploadFailures \cup {"timeout"}

\* C18 witness: a success and a failed upload have been pushed
C18_Witness ==
    /\ Len(results) = 2
    /\ results[1].success
    /\ results[1].error_details = "none"
    /\ ~results[2].success
    /\ results[2].error_details \in UploadFailures

\* the u64 u is the integer x
U64Is(u, x) == u.two63 = 0 /\ u.plus = x

\* C19 as stated: in every successful result propagation_duration_ms is
\* first_read_success_time minus upload_time in milliseconds (a u64 is
\* never negative), whatever the two timestamps are.
C19_DurationIsDifference ==
    \A r \in Produced :
        r.success =>
            U64Is(r.propagation_duration_ms.v,
                  r.first_read_success_time.v - r.upload_time)

\* C20 as stated: the total_attempts of the result of an iteration whose
\* put succeeded is the number of reads its poll issued, whether the poll
\* returned Ok or timed out.
C20_TotalAttemptsCountsReads ==
    (pc["main"] = "push" /\ InIteration /\ hist[file_key].put = "ok") =>
        test_result.total_attempts = cur.reads

\* the call of calculate_statistics has been made (it returned or panicked)
StatisticsCalled == call.fn = "calculate_statistics" /\ returned.done

\* the durations of the results that are successes with a duration
SuccessDurations(rs) ==
    {rs[k].propagation_duration_ms.v :
        k \in {j \in 1..Len(rs) :
                  rs[j].success /\ is_some(rs[j].propagation_duration_ms)}}

\* floor(f * 2^s), for a result below 2^30
FloorScaled(f, s) ==
    IF f.m = <<>> THEN 0
    ELSE IF f.e + s >= 0 THEN BitsNat(f.m \o Zeros(f.e + s))
    ELSE IF 0 - (f.e + s) >= F64Precision THEN 0
    ELSE BitsNat(SubSeq(f.m, 1, F64Precision + f.e + s))

\* the f64 f is num / den to within 2^-19
Near(f, num, den) ==
    LET below == FloorScaled(f, 20)
    IN  /\ (below - 1) * den <= num * 2^20
        /\ num * 2^20 <= (below + 2) * den

\* C21 as stated: calculate_statistics on any result list returns
\* successful_tests + failed_tests = number of results, successful_tests
\* being the number of results with success = true and a duration, and
\* success_rate = 100 * successful_tests / number of results (0.0 on the
\* empty list).
C21_CountsAndRate ==
    StatisticsCalled =>
        /\ ~returned.panic
        /\ LET st == returned.value
               rs == call.results
               good == Cardinality({k \in 1..Len(rs) :
                           /\ rs[k].success
                           /\ is_some(rs[k].propagation_duration_ms)})
           IN  /\ st.successful_tests = good
               /\ st.successful_tests + st.failed_tests = Len(rs)
               /\ IF rs = <<>>
                  THEN st.success_rate = F64Zero
                  ELSE Near(st.success_rate, 100 * good, Len(rs))

\* C22 as stated: calculate_statistics returns the six timing fields all
\* absent, with the counts and the rate still computed, when no result is
\* a success with a duration, and all six present when one is.
C22_TimingFieldsTogether ==
    StatisticsCalled =>
        /\ ~returned.panic
        /\ LET st == returned.value
               rs == call.results
               timing == {st.min_propagation_time_ms.some,
                          st.max_propagation_time_ms.some,
                          st.avg_propagation_time_ms.some,
                          st.median_propagation_time_ms.some,
                          st.percentile_95_ms.some,
                          st.percentile_99_ms.some}
           IN  IF SuccessDurations(rs) = {}
               THEN /\ timing = {FALSE}
                    /\ st.successful_tests = 0
                    /\ st.failed_tests = Len(rs)
                    /\ st.success_rate = F64Zero
               ELSE timing = {TRUE}

\* C23 as stated: for any result list with a success, the min and max
\* that calculate_statistics returns are the smallest and the largest
\* duration among the successes; failures contribute to neither.
C23_MinMaxOfSuccesses ==
    (StatisticsCalled /\ SuccessDurations(call.results) /= {}) =>
        /\ ~returned.panic
        /\ LET st == returned.value
               ds == SuccessDurations(call.results)
           IN  /\ is_some(st.min_propagation_time_ms)
               /\ is_some(st.max_propagation_time_ms)
               /\ st.min_propagation_time_ms.v \in ds
               /\ st.max_propagation_time_ms.v \in ds
               /\ \A d \in ds :
                      /\ U64Le(st.min_propagation_time_ms.v, d)
                      /\ U64Le(d, st.max_propagation_time_ms.v)

MedianCalled == call.fn = "calculate_median" /\ returned.done

PercentileCalled == call.fn = "calculate_percentile" /\ returned.done

\* C24 as stated: calculate_median on a sorted list returns None for the
\* empty list, the central element for an odd length and, for an even
\* length, the two central elements' sum halved, rounding down (300 on
\* 100..500 and 250 on 100..400).
C24_MedianIsCentralOrAverage ==
    MedianCalled =>
        /\ ~returned.panic
        /\ LET ds == call.durations
               len == Len(ds)
               mid1 == ds[len \div 2]
               mid2 == ds[len \div 2 + 1]
           IN  IF len = 0 THEN returned.value = NoDuration
               ELSE IF len % 2 = 1
               THEN returned.value = Some(ds[(len + 1) \div 2])
               ELSE returned.value =
                        Some([two63 |-> (mid1.two63 + mid2.two63) \div 2,
                              plus |-> (mid1.plus + mid2.plus) \div 2])
        /\ call.durations = Ramp(5) => returned.value = Some(as_u64(300))
        /\ call.durations = Ramp(4) => returned.value = Some(as_u64(250))

\* C25 as stated: calculate_percentile on a sorted list of n > 0 durations
\* returns, for 0 <= p <= 100, the element at index
\* min(max(ceil(p / 100 * n) - 1, 0), n - 1): the first for p = 0, the last
\* for p = 100; it returns None for the empty list and for p < 0 or
\* p > 100; what it returns is always an element of the list.
C25_NearestRankIndex ==
    PercentileCalled =>
        LET ds == call.durations
            n == Len(ds)
            p == call.percentile
            rank == (p * n + 99) \div 100
            index == min(IF rank - 1 > 0 THEN rank - 1 ELSE 0, n - 1)
        IN  IF n = 0 \/ p < 0 \/ p > 100 THEN returned.value = NoDuration
            ELSE /\ returned.value = Some(ds[index + 1])
                 /\ p = 0 => returned.value = Some(ds[1])
                 /\ p = 100 => returned.value = Some(ds[n])
                 /\ returned.value.v \in Range(ds)

\* C26: for every sorted list of n durations the 95th percentile is the
\* last element when 1 <= n < 20 and the 99th is the last when
\* 1 <= n < 100 (both are 500 on 100..500); at n = 20 the 95th percentile
\* is the 19th element, which on distinct durations is not the maximum.
C26_SmallSamplesGiveMax ==
    PercentileCalled =>
        LET ds == call.durations
            n == Len(ds)
            p == call.percentile
        IN  /\ (p = 95 /\ 1 <= n /\ n < 20) => returned.value = Some(ds[n])
            /\ (p = 99 /\ 1 <= n /\ n < 100) => returned.value = Some(ds[n])
            /\ (p \in {95, 99} /\ ds = Ramp(5)) =>
                   returned.value = Some(as_u64(500))
            /\ (p = 95 /\ n = 20) =>
                   /\ returned.value = Some(ds[19])
                   /\ ds = Ramp(20) => returned.value /= Some(ds[20])

\* C26 witness: the 95th percentile of 100, 200, .., 2000 was computed and
\* is 1900
C26_Witness ==
    /\ PercentileCalled
    /\ call.percentile = 95
    /\ call.durations = Ramp(20)
    /\ returned.value = Some(as_u64(1900))

\* the list rs in the order f
Permuted(rs, f) == [k \in 1..Len(rs) |-> rs[f[k]]]

\* C27: calculate_statistics gives the same outcome (the same counts,
\* rate, min, max, mean, median, p95 and p99) on every permutation of its
\* result list; the median and a percentile of a sorted list are what they
\* are after the list is sorted again.
C27_OrderIndependent ==
    /\ StatisticsCalled =>
           \A f \in Permutations(1..Len(call.results)) :
               calculate_statistics(Permuted(call.results, f),
                                    call.overflow_checks)
                   = [panic |-> returned.panic, value |-> returned.value]
    /\ MedianCalled =>
           calculate_median(sort_unstable(call.durations),
                            call.overflow_checks)
               = [panic |-> returned.panic, value |-> returned.value]
    /\ PercentileCalled =>
           calculate_percentile(sort_unstable(call.durations),
                                call.percentile) = returned.value

\* C27 witness: statistics were returned for a list whose durations are in
\* descending order
C27_Witness ==
    /\ StatisticsCalled
    /\ ~returned.panic
    /\ Len(call.results) = 3
    /\ \A k \in 1..3 : call.results[k].success
    /\ call.results[1].propagation_duration_ms.v = as_u64(1000)
    /\ call.results[2].propagation_duration_ms.v = as_u64(300)
    /\ call.results[3].propagation_duration_ms.v = as_u64(100)
    /\ returned.value.min_propagation_time_ms = Some(as_u64(100))
    /\ returned.value.median_propagation_time_ms = Some(as_u64(300))

Outstanding(log) ==
    LET live == {n \in 1..Len(log) :
                    /\ log[n].op = "register_file"
                    /\ \A m \in (n + 1)..Len(log) :
                           ~(/\ log[m].op = "unregister_file"
                             /\ log[m].key = log[n].key)}
    IN  [j \in 1..Cardinality(live) |->
            log[CHOOSE n \in live :
                    Cardinality({m \in live : m <= n}) = j].key]

\* C29: after any sequence of register_file and unregister_file calls,
\* active_file_count returns the length of the list get_active_files
\* returns, and that list holds the keys registered and not unregistered
\* since, in registration order (register 1, register 2, unregister 1:
\* count 1, list [2]).
C29_CountAndListAreOutstanding ==
    /\ observed.files_at = Len(api_log) =>
           observed.files = Outstanding(api_log)
    /\ observed.count_at = Len(api_log) =>
           observed.count = Len(Outstanding(api_log))
    /\ (observed.files_at = Len(api_log)
            /\ observed.count_at = Len(api_log)) =>
           observed.count = Len(observed.files)
    /\ (/\ api_log = <<[op |-> "register_file", key |-> "test-file-1"],
                       [op |-> "register_file", key |-> "test-file-2"],
                       [op |-> "unregister_file", key |-> "test-file-1"]>>
        /\ observed.files_at = 3
        /\ observed.count_at = 3) =>
           /\ observed.count = 1
           /\ observed.files = <<"test-file-2">>

\* C29 witness: after register 1, register 2, unregister 1 the count was
\* read as 1 and the list as [2]
C29_Witness ==
    /\ api_log = <<[op |-> "register_file", key |-> "test-file-1"],
                   [op |-> "register_file", key |-> "test-file-2"],
                   [op |-> "unregister_file", key |-> "test-file-1"]>>
    /\ observed.count_at = 3
    /\ observed.files_at = 3
    /\ observed.count = 1
    /\ observed.files = <<"test-file-2">>

\* the places of files that do not hold key, in order
PlacesWithout(files, key) ==
    LET keep == {n \in 1..Len(files) : files[n] /= key}
    IN  [j \in 1..Cardinality(keep) |->
            CHOOSE n \in keep : Cardinality({m \in keep : m <= n}) = j]

\* C30: a call unregister_file(key) leaves no occurrence of key in
\* active_files and keeps every other entry, in the same order; when key is
\* not there the list is unchanged (no error), so a second call right after
\* the first changes nothing.
C30_UnregisterRemovesEveryOccurrence ==
    [][\A key \in ApiKeys :
          api_log' = Append(api_log, [op |-> "unregister_file", key |-> key])
              => /\ key \notin Range(active_files')
                 /\ LET at == PlacesWithout(active_files, key)
                    IN  active_files' = [j \in 1..Len(at) |-> active_files[at[j]]]
                 /\ key \notin Range(active_files) =>
                        active_files' = active_files
                 /\ (/\ api_log /= <<>>
                     /\ api_log[Len(api_log)] =
                            [op |-> "unregister_file", key |-> key]) =>
                        active_files' = active_files]_vars

\* C30 witness: unregister_file has removed both occurrences of a key and
\* kept the other key, and was then called again
C30_Witness ==
    /\ Len(api_log) = 5
    /\ api_log[1] = [op |-> "register_file", key |-> "test-file-1"]
    /\ api_log[2] = [op |-> "register_file", key |-> "test-file-2"]
    /\ api_log[3] = [op |-> "register_file", key |-> "test-file-1"]
    /\ api_log[4] = [op |-> "unregister_file", key |-> "test-file-1"]
    /\ api_log[5] = [op |-> "unregister_file", key |-> "test-file-1"]
    /\ active_files = <<"test-file-2">>

\* C31: register_file(key) can be called in every state of the manager, for
\* every key, and each call makes active_files longer by exactly one entry,
\* the key at the end, also when the key is in the list already: after
\* registering the same key twice the count is 2.
C31_RegisterGrowsByOne ==
    /\ [](Len(api_log) < MaxCalls =>
             \A key \in ApiKeys : ENABLED register_file(key))
    /\ [][\A key \in ApiKeys :
             api_log' = Append(api_log, [op |-> "register_file", key |-> key])
                 => /\ Len(active_files') = Len(active_files) + 1
                    /\ active_files' = Append(active_files, key)]_vars
    /\ []((/\ Len(api_log) = 2
            /\ api_log[1].op = "register_file"
            /\ api_log[2] = api_log[1]
            /\ observed.count_at = 2) => observed.count = 2)

\* C31 witness: the same key was registered twice and the count read as 2
C31_Witness ==
    /\ api_log = <<[op |-> "register_file", key |-> "test-file-1"],
                   [op |-> "register_file", key |-> "test-file-1"]>>
    /\ active_files = <<"test-file-1", "test-file-1">>
    /\ observed.count_at = 2
    /\ observed.count = 2

\* every put so far succeeded, every first read succeeded and every delete
\* issued so far succeeded
AllSucceeded ==
    \A k \in 1..test_count :
        /\ hist[k].put = "ok"
        /\ hist[k].firstRead = "ok"
        /\ hist[k].deletesOk = Deletes(k)

\* calculate_statistics has been called by the run
StatisticsReached == pc["main"] \in AfterLoop \/ proc = "panic"

\* C32 as stated: in a run of test_count = N iterations, N >= 1, in which
\* every put, every first read and every delete succeeds, the outstanding
\* set is empty when the loop is over, and once calculate_statistics has
\* been called there are N results, all with success = true and
\* total_attempts = 1, and statistics of N successes, 0 failures and a
\* success rate of 100.0.
C32_EndToEndAllSucceed ==
    (test_count >= 1 /\ AllSucceeded) =>
        /\ pc["main"] \in {"stats", "final_check"} => active_files = <<>>
        /\ StatisticsReached =>
               /\ Len(results) = test_count
               /\ \A n \in 1..Len(results) :
                      results[n].success /\ results[n].total_attempts = 1
               /\ statistics.set
               /\ statistics.successful_tests = test_count
               /\ statistics.failed_tests = 0
               /\ statistics.success_rate = f64_from(100)

\* the stage of the run
Stage(where) ==
    IF where = "stats" THEN "Aggregating"
    ELSE IF where \in {"report", "done"} THEN "Done"
    ELSE IF where \in AfterLoop THEN "Draining"
    ELSE "Running"

\* C33: the stages follow each other in the order Running, Aggregating,
\* Draining, Done and none is entered twice.  calculate_statistics is
\* called in Aggregating only: every iteration has then finished (a result
\* for each of the test_count iterations, none in progress, cleanup_file
\* called for every uploaded key) and what it returns is computed from the
\* full results list; the statistics and the results change nowhere else
\* afterwards.  final_cleanup_check is called on leaving Aggregating, with
\* the statistics computed, and the report is assembled only when it has
\* returned (nothing to drain, or the drain has returned).
C33_StagesInOrder ==
    /\ [][LET from == Stage(pc["main"])
              to == Stage(pc'["main"])
          IN  /\ from /= to =>
                     <<from, to>> \in {<<"Running", "Aggregating">>,
                                       <<"Aggregating", "Draining">>,
                                       <<"Draining", "Done">>}
              /\ from /= "Aggregating" =>
                     (statistics' = statistics /\ proc' /= "panic")
              /\ from /= "Running" => results' = results
              /\ (from = "Aggregating" /\ to = "Draining") =>
                     /\ pc'["main"] = "final_check"
                     /\ \E oc \in BOOLEAN :
                            statistics' =
                                calculate_statistics(results, oc).value]_vars
    /\ [](LET stage == Stage(pc["main"])
          IN  /\ stage /= "Running" =>
                     /\ Len(results) = test_count
                     /\ i = test_count
                     /\ file_key = 0
                     /\ cur = CurInit
                     /\ \A k \in 1..test_count :
                            /\ hist[k].put /= "none"
                            /\ Uploaded(k) => hist[k].cleanupDeletes >= 1
              /\ statistics.set <=> stage \in {"Draining", "Done"}
              /\ stage = "Done" =>
                     \/ active_count = 0 /\ ec["main"].ret = "none"
                     \/ active_count > 0
                            /\ ec["main"].ret \in {"empty", "drained"})

\* C33 witness: a run of two iterations has assembled its report after a
\* final_cleanup_check that drained a key
C33_Witness ==
    /\ pc["main"] = "done"
    /\ test_count = 2
    /\ Len(results) = 2
    /\ statistics.set
    /\ active_count = 1
    /\ ec["main"].ret = "drained"
    /\ Len(ec["main"].issued) = 1

\* C34: the inter-test delay is slept once after each iteration but the
\* last and nowhere else: when index iterations have been left behind, it
\* was slept after the first index of them, the last of the run excepted,
\* so N - 1 times in a run of N >= 1 iterations and never in a run of
\* none; while it is slept no iteration is in progress (the result of the
\* one before is pushed, its cleanup_file has returned, the next put is
\* not issued), so no poll is under way.
C34_DelayBetweenIterations ==
    /\ slept =
           1..(IF i < test_count - 1 THEN i ELSE test_count - 1)
    /\ Stage(pc["main"]) /= "Running" =>
           Cardinality(slept) =
               (IF test_count = 0 THEN 0 ELSE test_count - 1)
    /\ pc["main"] = "inter_sleep" =>
           /\ Len(results) = i + 1
           /\ i + 1 < test_count
           /\ file_key = 0
           /\ cur = CurInit
           /\ hist[i + 1].put /= "none"
           /\ hist[i + 2].put = "none"
           /\ Uploaded(i + 1) => hist[i + 1].cleanupDeletes >= 1

\* C34 witness: a run of two iterations is over, the delay slept after the
\* first and not after the second
C34_Witness ==
    /\ pc["main"] = "done"
    /\ test_count = 2
    /\ slept = {1}
    /\ Uploaded(1)
    /\ Uploaded(2)

\* cleanup_file made its three attempts for key and none succeeded (in a
\* run without interrupt the only other delete of a key is the one of
\* final_cleanup_check)
Exhausted(k) ==
    /\ hist[k].cleanupDeletes = CleanupAttempts
    /\ hist[k].deletesOk <= hist[k].finalDeletes

\* the iteration of key k is over
Finished(k) ==
    /\ hist[k].put /= "none"
    /\ k /= file_key
    /\ Len(results) >= k

\* C35: in a run without interrupt, when the put of an iteration is issued
\* every earlier iteration is over (its result pushed; if its put
\* succeeded, cleanup_file has run to a successful delete or through its
\* three attempts); active_files holds at most one key for which
\* cleanup_file has not been called, the key of the iteration in progress,
\* and is never longer than 1 plus the number of earlier iterations whose
\* cleanup_file exhausted its three attempts.
C35_IterationsSequential ==
    NoInterrupt =>
        /\ pc["main"] = "put" =>
               /\ file_key = i + 1
               /\ Len(results) = i
               /\ \A k \in 1..i :
                      /\ Finished(k)
                      /\ Uploaded(k) =>
                             \/ hist[k].deletesOk >= 1
                             \/ hist[k].cleanupDeletes = CleanupAttempts
               /\ \A k \in (i + 1)..MaxTests : hist[k] = HistInit
        /\ \A k \in Range(active_files) :
               hist[k].cleanupDeletes = 0 => k = file_key
        /\ Cardinality({n \in 1..Len(active_files) :
                            hist[active_files[n]].cleanupDeletes = 0}) <= 1
        /\ Len(active_files) <=
               1 + Cardinality({k \in Keys : Finished(k) /\ Exhausted(k)})

\* C35 witness: no interrupt; the three deletes of the first iteration
\* failed and the key of the second is registered, its cleanup_file not
\* yet called: two keys are outstanding
C35_Witness ==
    /\ NoInterrupt
    /\ active_files = <<1, 2>>
    /\ Finished(1)
    /\ Exhausted(1)
    /\ file_key = 2
    /\ hist[2].cleanupDeletes = 0
    /\ pc["main"] = "reading"

\* C36: in a process that no interrupt ends, a call of
\* test_read_consistency returns, whatever the reads do, for every
\* max_wait and check_interval, time advancing; it returns Ok or the
\* timeout error, and the time since its start never passes max_wait +
\* check_interval + the 5 seconds of the per-attempt timeout.
C36_PollReturnsInTime ==
    /\ (pc["main"] = "poll_start") ~> (pc["main"] = "cleanup")
    /\ [](/\ pc["main"] \in PollSteps \/ pc["main"] = "cleanup" =>
               elapsed <= from_secs(max_wait) + from_millis(interval)
                              + from_secs(5)
          /\ pc["main"] = "cleanup" =>
               /\ consistency_result.set
               /\ cur.poll \in {"ok", "timeout"}
               /\ consistency_result.ok <=> cur.poll = "ok")

\* C36 witness: with check_interval = 0 a poll has returned the timeout
\* error after reads that failed at once and one that took time
C36_Witness ==
    /\ pc["main"] = "cleanup"
    /\ interval = 0
    /\ max_wait = 1
    /\ cur.poll = "timeout"
    /\ cur.reads = MaxAttempts + 1
    /\ elapsed = from_secs(max_wait)

\* the keys that the clear of the drain of task t drops from active_files
Dropped(t) ==
    IF pc[t] = "ec_clear" /\ pc'[t] /= "ec_clear"
    THEN Range(active_files) \ Range(active_files')
    ELSE {}

\* C37 as stated: with register_file called while the hook drains, the
\* clear at the end of emergency_cleanup drops from active_files only keys
\* of its snapshot, for each of which it has issued a delete; a key
\* registered after the snapshot is still tracked after the clear.
C37_DrainDropsOnlySnapshot ==
    [][\A k \in Dropped("hook") :
          /\ k \in Range(ec["hook"].snap)
          /\ k \in Range(ec["hook"].issued)]_vars

\* the run is over: run_consistency_test has returned and the process has
\* exited, or calculate_statistics has panicked
RunOver == proc \in {"exit0", "panic"}

\* C38 as stated: in a run without interrupt, for every uploaded key:
\* cleanup_file issues at most 3 deletes, final_cleanup_check at most one,
\* so at most 4 in all; at most one delete succeeds and none is issued
\* after it; when the run is over at least one delete was issued, and the
\* one of final_cleanup_check was issued exactly when the 3 of
\* cleanup_file all failed.
C38_DeletesPerKey ==
    /\ [](NoInterrupt =>
             \A k \in Keys :
                 Uploaded(k) =>
                     /\ hist[k].cleanupDeletes <= CleanupAttempts
                     /\ hist[k].finalDeletes <= 1
                     /\ Deletes(k) <= 4
                     /\ hist[k].deletesOk <= 1
                     /\ hist[k].finalDeletes = 1 =>
                            hist[k].cleanupDeletes = CleanupAttempts
                     /\ RunOver =>
                            /\ Deletes(k) >= 1
                            /\ hist[k].finalDeletes = 1 <=> Exhausted(k))
    /\ [][NoInterrupt =>
             \A k \in Keys :
                 hist[k].deletesOk >= 1 =>
                     /\ hist'[k].cleanupDeletes = hist[k].cleanupDeletes
                     /\ hist'[k].finalDeletes = hist[k].finalDeletes]_vars

\* C39 as stated: whenever calculate_statistics returns timing fields they
\* are ordered min <= median <= p95 <= p99 <= max, and min, max, p95 and
\* p99 are each the duration of a successful result.
C39_TimingFieldsOrdered ==
    (/\ StatisticsCalled
     /\ ~returned.panic
     /\ returned.value.min_propagation_time_ms.some) =>
        LET st == returned.value
            lo == st.min_propagation_time_ms.v
            mid == st.median_propagation_time_ms.v
            p95 == st.percentile_95_ms.v
            p99 == st.percentile_99_ms.v
            hi == st.max_propagation_time_ms.v
        IN  /\ U64Le(lo, mid)
            /\ U64Le(mid, p95)
            /\ U64Le(p95, p99)
            /\ U64Le(p99, hi)
            /\ {lo, p95, p99, hi} \subseteq SuccessDurations(call.results)

\* C40 as stated: on a sorted list of even length calculate_median returns
\* floor((a + b) / 2) for its two central values a and b, a value between
\* a and b, whatever 64-bit durations they are, those near 2^64 that the
\* cast of a negative difference produces included; the sum a + b does
\* not pass 2^64, so the call neither panics nor wraps.
C40_MedianSumNeverOverflows ==
    (MedianCalled /\ Len(call.durations) > 0
         /\ Len(call.durations) % 2 = 0) =>
        LET a == call.durations[Len(call.durations) \div 2]
            b == call.durations[Len(call.durations) \div 2 + 1]
        IN  /\ ~U64Add(a, b).overflow
            /\ ~returned.panic
            /\ returned.value.some
            /\ U64Le(a, returned.value.v)
            /\ U64Le(returned.value.v, b)
            /\ returned.value.v =
                   [two63 |-> (a.two63 + b.two63) \div 2,
                    plus |-> (a.plus + b.plus) \div 2]

====
